---- MODULE Spec2Model ----
(***************************************************************************)
(* XQsim patch-trace interface layer.                                      *)
(*                                                                         *)
(*   Spec      : concurrent /trace requests of api_server.py going through *)
(*               the Serialization Gate (_trace_lock) and the Escape       *)
(*               Interceptor (_intercept_sys_exit) of the backend.         *)
(*   TraceSpec : one invocation of trace_patches_from_qasm, its stepping   *)
(*               loop and Event Recorder.                                  *)
(*   DiffSpec  : the pure function _diff_patch_snapshots on drawn inputs.  *)
(*   NormSpec  : the pure function _to_json_safe on a drawn input.         *)
(*   SnapSpec  : _take_full_patch_snapshot on a drawn PIU, one of whose    *)
(*               reads may fail.                                           *)
(*   OracleSpec: _check_system_stable evaluated once on a drawn simulator  *)
(*               state.                                                    *)
(*   TermSpec  : one invocation with the done-fix wrappers of qif and lmu, *)
(*               on a simulator that accepts no instruction.               *)
(*   LongSpec  : the same invocation on a simulator that is stuck, with a  *)
(*               ceiling of LongCycles cycles.                             *)
(*   DirectSpec: concurrent direct calls of trace_patches_from_qasm,       *)
(*               without the gate.                                         *)
(*   AliasSpec : the snapshots of one invocation as objects: which records *)
(*               are shared, and with what.                                *)
(***************************************************************************)
EXTENDS Integers, Sequences, FiniteSets, TLC

VARIABLES
    \* ---- api_server.py: process-wide state and one record per request thread
    rpc,                 \* position of each request thread in trace()
    req_qasm,            \* kind of the request's circuit text
    trace_lock,          \* _trace_lock: TRUE when locked
    trace_in_progress,   \* _trace_in_progress
    trace_start_time,    \* _trace_start_time: "None" or "set"
    acquired,            \* local `acquired` of trace()
    releases,            \* number of _trace_lock.release() calls of the request
    exc,                 \* exception in flight in the request thread
    outcome,             \* HTTP status the request ended with (0: none yet)
    \* ---- patch_trace_backend.py: process-wide exit primitive and interceptor
    sys_exit,            \* 0: the original sys.exit, r: _intercepted_exit of r
    exit_intercept_lock, \* _exit_intercept_lock: 0 free, r held by r
    original_exit,       \* local original_exit of each activation
    exit_info,           \* exit_info of each activation
    sim_built,           \* the request constructed a simulator
    run_cycles,          \* simulator cycles executed for the request
    proc_exited,         \* the original exit primitive was invoked
    \* ---- trace_patches_from_qasm: one invocation (TraceSpec)
    pc,                  \* position of the driver in the stepping loop
    sim,                 \* the wrapped simulator's observable state
    patch_initial,
    prev_snapshot,
    events,
    accepted_inst_count,
    termination_reason,
    timeout_seconds,     \* "None" or "set"
    trace_meta,          \* TraceMetadata of the invocation
    error,               \* exception the invocation ended with ("none": none)
    response,            \* <<>> until the report is returned, then <<report>>
    is_stable,           \* the latest _check_system_stable call returned True
    exit_called,         \* exit_info["called"] of the invocation's interceptor
    artifacts,           \* transient compiled files of the job present on disk
    keep_artifacts,
    phase_calls,         \* the phases and the recorder, as the loop invoked them
    \* ---- _diff_patch_snapshots on drawn inputs (DiffSpec)
    dpc, dprev, dcur, deltas,
    \* ---- _to_json_safe on a drawn input (NormSpec)
    npc,                 \* "drawn", then "applied"
    nvalue,              \* the argument
    nresult,             \* what the call ended with: a value or an exception
    \* ---- _take_full_patch_snapshot on a drawn PIU (SnapSpec)
    spc,                 \* "drawn", then "taken"
    sram,                \* what the PIU arrays hold
    sflaw,               \* the read of the PIU that fails, if any
    sresult,             \* what the call ended with: a snapshot or an exception
    \* ---- the snapshots of one invocation as objects (AliasSpec)
    apc,                 \* "start", "loop", then "returned"
    aram,                \* the PIU arrays, updated in place by the simulator
    heap,                \* the record dicts allocated so far, by address
    snapshots,           \* the PatchSnapshot objects taken so far, in order
    aprev,               \* which of them prev_snapshot names
    aevents,             \* the patch_delta lists of the events
    areport              \* <<>>, then <<report["patch"]>>

gvars == <<rpc, req_qasm, trace_lock, trace_in_progress, trace_start_time,
           acquired, releases, exc, outcome, sys_exit, exit_intercept_lock,
           original_exit, exit_info, sim_built, run_cycles, proc_exited>>
xvars == <<is_stable, exit_called, artifacts, keep_artifacts, phase_calls>>
tvars == <<pc, sim, patch_initial, prev_snapshot, events, accepted_inst_count,
           termination_reason, timeout_seconds, trace_meta, error, response,
           xvars>>
nvars == <<npc, nvalue, nresult>>
svars == <<spc, sram, sflaw, sresult>>
avars == <<apc, aram, heap, snapshots, aprev, aevents, areport>>
dvars == <<dpc, dprev, dcur, deltas, nvars, svars, avars>>
vars == <<gvars, tvars, dvars>>

\* ------------------------------------------------------------------ bounds
NumReq == 2
MaxCycles == 2
NumPch == 2

\* ------------------------------------------------------- program constants
TimeoutCheckInterval == 100
\* trace_meta.stability_check_failures[:10] in the report
FailuresReported == 10

Reqs == 1..NumReq
ExitCodes == {"None", "1"}
NoExc == [type |-> "none", code |-> "none"]
Raised(t) == [type |-> t, code |-> "none"]

\* ======================================================================
\*  Idle values of the groups a specification does not use
\* ======================================================================
GateIdle ==
    /\ rpc = [r \in Reqs |-> "idle"]
    /\ req_qasm = [r \in Reqs |-> "ok"]
    /\ trace_lock = FALSE
    /\ trace_in_progress = FALSE
    /\ trace_start_time = "None"
    /\ acquired = [r \in Reqs |-> FALSE]
    /\ releases = [r \in Reqs |-> 0]
    /\ exc = [r \in Reqs |-> NoExc]
    /\ outcome = [r \in Reqs |-> 0]
    /\ sys_exit = 0
    /\ exit_intercept_lock = 0
    /\ original_exit = [r \in Reqs |-> 0]
    /\ exit_info = [r \in Reqs |-> [called |-> FALSE, code |-> "None"]]
    /\ sim_built = [r \in Reqs |-> FALSE]
    /\ run_cycles = [r \in Reqs |-> 0]
    /\ proc_exited = FALSE

TraceIdle ==
    /\ pc = "idle"
    /\ sim = <<>>
    /\ patch_initial = <<>>
    /\ prev_snapshot = <<>>
    /\ events = <<>>
    /\ accepted_inst_count = 0
    /\ termination_reason = "normal"
    /\ timeout_seconds = "None"
    /\ trace_meta = [forced_terminations |-> <<>>, warnings |-> <<>>,
                     stability_check_failures |-> <<>>]
    /\ error = "none"
    /\ response = <<>>
    /\ is_stable = FALSE
    /\ exit_called = FALSE
    /\ artifacts = {}
    /\ keep_artifacts = FALSE
    /\ phase_calls = <<>>

NormIdle ==
    /\ npc = "idle"
    /\ nvalue = <<>>
    /\ nresult = <<>>

SnapIdle ==
    /\ spc = "idle"
    /\ sram = <<>>
    /\ sflaw = <<>>
    /\ sresult = <<>>

AliasIdle ==
    /\ apc = "idle"
    /\ aram = <<>>
    /\ heap = <<>>
    /\ snapshots = <<>>
    /\ aprev = 0
    /\ aevents = <<>>
    /\ areport = <<>>

DiffIdle ==
    /\ dpc = "idle"
    /\ dprev = <<>>
    /\ dcur = <<>>
    /\ deltas = <<>>
    /\ NormIdle
    /\ SnapIdle
    /\ AliasIdle

\* ======================================================================
\*  api_server.py: trace(), one action per atomic step of a request thread
\* ======================================================================
LocalsReset(r) ==
    /\ acquired' = [acquired EXCEPT ![r] = FALSE]
    /\ releases' = [releases EXCEPT ![r] = 0]
    /\ exc' = [exc EXCEPT ![r] = NoExc]
    /\ outcome' = [outcome EXCEPT ![r] = 0]
    /\ original_exit' = [original_exit EXCEPT ![r] = 0]
    /\ exit_info' = [exit_info EXCEPT ![r] = [called |-> FALSE, code |-> "None"]]
    /\ sim_built' = [sim_built EXCEPT ![r] = FALSE]
    /\ run_cycles' = [run_cycles EXCEPT ![r] = 0]

\* A request arrives on a worker thread (a thread that finished serves again).
Arrive(r) ==
    /\ ~proc_exited
    /\ UNCHANGED <<tvars, dvars>>
    /\ rpc[r] \in {"idle", "done"}
    /\ \E q \in {"empty", "bad", "ok"} : req_qasm' = [req_qasm EXCEPT ![r] = q]
    /\ rpc' = [rpc EXCEPT ![r] = "entry"]
    /\ LocalsReset(r)
    /\ UNCHANGED <<trace_lock, trace_in_progress, trace_start_time, sys_exit,
                   exit_intercept_lock, proc_exited>>

\* if not req.qasm or not req.qasm.strip(): raise HTTPException(400)
CheckEmpty(r) ==
    /\ ~proc_exited
    /\ UNCHANGED <<tvars, dvars>>
    /\ rpc[r] = "entry"
    /\ IF req_qasm[r] = "empty"
         THEN /\ rpc' = [rpc EXCEPT ![r] = "done"]
              /\ outcome' = [outcome EXCEPT ![r] = 400]
         ELSE /\ rpc' = [rpc EXCEPT ![r] = "acquire"]
              /\ UNCHANGED outcome
    /\ UNCHANGED <<req_qasm, trace_lock, trace_in_progress, trace_start_time,
                   acquired, releases, exc, sys_exit, exit_intercept_lock,
                   original_exit, exit_info, sim_built, run_cycles, proc_exited>>

\* A blocking acquire: the thread waits for the lock instead of being refused.
AcquireBlocking(r) ==
    /\ ~proc_exited
    /\ UNCHANGED <<tvars, dvars>>
    /\ rpc[r] = "acquire"
    /\ ~trace_lock
    /\ trace_lock' = TRUE
    /\ acquired' = [acquired EXCEPT ![r] = TRUE]
    /\ rpc' = [rpc EXCEPT ![r] = "set_flag"]
    /\ UNCHANGED <<req_qasm, trace_in_progress, trace_start_time, releases, exc,
                   outcome, sys_exit, exit_intercept_lock, original_exit,
                   exit_info, sim_built, run_cycles, proc_exited>>

\* The result of the acquire is ignored: the request goes on in either case.
AcquireUnchecked(r) ==
    /\ ~proc_exited
    /\ UNCHANGED <<tvars, dvars>>
    /\ rpc[r] = "acquire"
    /\ trace_lock' = TRUE
    /\ acquired' = [acquired EXCEPT ![r] = TRUE]
    /\ rpc' = [rpc EXCEPT ![r] = "set_flag"]
    /\ UNCHANGED <<req_qasm, trace_in_progress, trace_start_time, releases, exc,
                   outcome, sys_exit, exit_intercept_lock, original_exit,
                   exit_info, sim_built, run_cycles, proc_exited>>
\* The refusal is raised inside the try block: the finally clause runs for the
\* refused request too.
AcquireInsideTry(r) ==
    /\ ~proc_exited
    /\ UNCHANGED <<tvars, dvars>>
    /\ rpc[r] = "acquire"
    /\ IF ~trace_lock
         THEN /\ trace_lock' = TRUE
              /\ acquired' = [acquired EXCEPT ![r] = TRUE]
              /\ rpc' = [rpc EXCEPT ![r] = "set_flag"]
              /\ UNCHANGED outcome
         ELSE /\ rpc' = [rpc EXCEPT ![r] = "fin_flag"]
              /\ outcome' = [outcome EXCEPT ![r] = 429]
              /\ UNCHANGED <<trace_lock, acquired>>
    /\ UNCHANGED <<req_qasm, trace_in_progress, trace_start_time, releases, exc,
                   sys_exit, exit_intercept_lock, original_exit, exit_info,
                   sim_built, run_cycles, proc_exited>>

\* acquired = _trace_lock.acquire(blocking=False); if not acquired: raise 429
Acquire(r) ==
    /\ ~proc_exited
    /\ UNCHANGED <<tvars, dvars>>
    /\ rpc[r] = "acquire"
    /\ IF ~trace_lock
         THEN /\ trace_lock' = TRUE
              /\ acquired' = [acquired EXCEPT ![r] = TRUE]
              /\ rpc' = [rpc EXCEPT ![r] = "set_flag"]
              /\ UNCHANGED outcome
         ELSE /\ rpc' = [rpc EXCEPT ![r] = "done"]
              /\ outcome' = [outcome EXCEPT ![r] = 429]
              /\ UNCHANGED <<trace_lock, acquired>>
    /\ UNCHANGED <<req_qasm, trace_in_progress, trace_start_time, releases, exc,
                   sys_exit, exit_intercept_lock, original_exit, exit_info,
                   sim_built, run_cycles, proc_exited>>

\* try: _trace_in_progress = True
SetInProgress(r) ==
    /\ ~proc_exited
    /\ UNCHANGED <<tvars, dvars>>
    /\ rpc[r] = "set_flag"
    /\ trace_in_progress' = TRUE
    /\ rpc' = [rpc EXCEPT ![r] = "set_start"]
    /\ UNCHANGED <<req_qasm, trace_lock, trace_start_time, acquired, releases,
                   exc, outcome, sys_exit, exit_intercept_lock, original_exit,
                   exit_info, sim_built, run_cycles, proc_exited>>

\* _trace_start_time = time.time()
SetStartTime(r) ==
    /\ ~proc_exited
    /\ UNCHANGED <<tvars, dvars>>
    /\ rpc[r] = "set_start"
    /\ trace_start_time' = "set"
    /\ rpc' = [rpc EXCEPT ![r] = "validate"]
    /\ UNCHANGED <<req_qasm, trace_lock, trace_in_progress, acquired, releases,
                   exc, outcome, sys_exit, exit_intercept_lock, original_exit,
                   exit_info, sim_built, run_cycles, proc_exited>>

\* The circuit is not looked at: every request goes on to the compiler.
ValidateAcceptsAll(r) ==
    /\ ~proc_exited
    /\ UNCHANGED <<tvars, dvars>>
    /\ rpc[r] = "validate"
    /\ \/ /\ UNCHANGED exc
          /\ rpc' = [rpc EXCEPT ![r] = "compile"]
       \/ /\ exc' = [exc EXCEPT ![r] = Raised("Exception")]
          /\ rpc' = [rpc EXCEPT ![r] = "handler"]
    /\ UNCHANGED <<req_qasm, trace_lock, trace_in_progress, trace_start_time,
                   acquired, releases, outcome, sys_exit, exit_intercept_lock,
                   original_exit, exit_info, sim_built, run_cycles, proc_exited>>

\* The lazy imports, QuantumCircuit.from_qasm_str and _validate_circuit_limits:
\* a malformed or over-limit circuit raises HTTPException(400); a failing import
\* is an unexpected exception.
Validate(r) ==
    /\ ~proc_exited
    /\ UNCHANGED <<tvars, dvars>>
    /\ rpc[r] = "validate"
    /\ \/ /\ req_qasm[r] = "bad"
          /\ exc' = [exc EXCEPT ![r] = Raised("HTTP400")]
          /\ rpc' = [rpc EXCEPT ![r] = "handler"]
       \/ /\ req_qasm[r] = "ok"
          /\ UNCHANGED exc
          /\ rpc' = [rpc EXCEPT ![r] = "compile"]
       \/ /\ exc' = [exc EXCEPT ![r] = Raised("Exception")]
          /\ rpc' = [rpc EXCEPT ![r] = "handler"]
    /\ UNCHANGED <<req_qasm, trace_lock, trace_in_progress, trace_start_time,
                   acquired, releases, outcome, sys_exit, exit_intercept_lock,
                   original_exit, exit_info, sim_built, run_cycles, proc_exited>>

\* ======================================================================
\*  patch_trace_backend.py: trace_patches_from_qasm as called by trace()
\* ======================================================================
\* Steps 1-3: parse, decompose, write the artifacts, run the compiler.
Compile(r) ==
    /\ ~proc_exited
    /\ UNCHANGED <<tvars, dvars>>
    /\ rpc[r] = "compile"
    /\ \/ /\ UNCHANGED exc
          /\ rpc' = [rpc EXCEPT ![r] = "sim_setup"]
       \/ \E t \in {"FileNotFoundError", "RuntimeError", "Exception"} :
             /\ exc' = [exc EXCEPT ![r] = Raised(t)]
             /\ rpc' = [rpc EXCEPT ![r] = "handler"]
    /\ UNCHANGED <<req_qasm, trace_lock, trace_in_progress, trace_start_time,
                   acquired, releases, outcome, sys_exit, exit_intercept_lock,
                   original_exit, exit_info, sim_built, run_cycles, proc_exited>>

\* Step 4: sim = xq_simulator_cls(); sim.setup(...); the transfer wrappers; the
\* initial snapshot.
SimSetup(r) ==
    /\ ~proc_exited
    /\ UNCHANGED <<tvars, dvars>>
    /\ rpc[r] = "sim_setup"
    /\ sim_built' = [sim_built EXCEPT ![r] = TRUE]
    /\ \/ /\ UNCHANGED exc
          /\ rpc' = [rpc EXCEPT ![r] = "icpt_capture"]
       \/ /\ exc' = [exc EXCEPT ![r] = Raised("Exception")]
          /\ rpc' = [rpc EXCEPT ![r] = "handler"]
    /\ UNCHANGED <<req_qasm, trace_lock, trace_in_progress, trace_start_time,
                   acquired, releases, outcome, sys_exit, exit_intercept_lock,
                   original_exit, exit_info, run_cycles, proc_exited>>

\* _intercept_sys_exit: original_exit = sys.exit; exit_info = {...}
InterceptCapture(r) ==
    /\ ~proc_exited
    /\ UNCHANGED <<tvars, dvars>>
    /\ rpc[r] = "icpt_capture"
    /\ original_exit' = [original_exit EXCEPT ![r] = sys_exit]
    /\ exit_info' = [exit_info EXCEPT ![r] = [called |-> FALSE, code |-> "None"]]
    /\ rpc' = [rpc EXCEPT ![r] = "icpt_lock"]
    /\ UNCHANGED <<req_qasm, trace_lock, trace_in_progress, trace_start_time,
                   acquired, releases, exc, outcome, sys_exit,
                   exit_intercept_lock, sim_built, run_cycles, proc_exited>>

\* with _exit_intercept_lock: (a blocking acquire)
InterceptLock(r) ==
    /\ ~proc_exited
    /\ UNCHANGED <<tvars, dvars>>
    /\ rpc[r] = "icpt_lock"
    /\ exit_intercept_lock = 0
    /\ exit_intercept_lock' = r
    /\ rpc' = [rpc EXCEPT ![r] = "icpt_install"]
    /\ UNCHANGED <<req_qasm, trace_lock, trace_in_progress, trace_start_time,
                   acquired, releases, exc, outcome, sys_exit, original_exit,
                   exit_info, sim_built, run_cycles, proc_exited>>

\* The replacement is never installed.
InstallSkipped(r) ==
    /\ ~proc_exited
    /\ UNCHANGED <<tvars, dvars>>
    /\ rpc[r] = "icpt_install"
    /\ rpc' = [rpc EXCEPT ![r] = "stepping"]
    /\ UNCHANGED <<req_qasm, trace_lock, trace_in_progress, trace_start_time,
                   acquired, releases, exc, outcome, sys_exit,
                   exit_intercept_lock, original_exit, exit_info, sim_built,
                   run_cycles, proc_exited>>

\* try: sys.exit = _intercepted_exit; yield exit_info
InterceptInstall(r) ==
    /\ ~proc_exited
    /\ UNCHANGED <<tvars, dvars>>
    /\ rpc[r] = "icpt_install"
    /\ sys_exit' = r
    /\ rpc' = [rpc EXCEPT ![r] = "stepping"]
    /\ UNCHANGED <<req_qasm, trace_lock, trace_in_progress, trace_start_time,
                   acquired, releases, exc, outcome, exit_intercept_lock,
                   original_exit, exit_info, sim_built, run_cycles, proc_exited>>

\* while not sim.sim_done: the simulator's completion flag is found true at the
\* head of the loop.
LoopDone(r) ==
    /\ ~proc_exited
    /\ UNCHANGED <<tvars, dvars>>
    /\ rpc[r] = "stepping"
    /\ rpc' = [rpc EXCEPT ![r] = "icpt_restore"]
    /\ UNCHANGED <<req_qasm, trace_lock, trace_in_progress, trace_start_time,
                   acquired, releases, exc, outcome, sys_exit,
                   exit_intercept_lock, original_exit, exit_info, sim_built,
                   run_cycles, proc_exited>>

\* The periodic wall-clock check finds the timeout exceeded: raise TimeoutError.
LoopTimeout(r) ==
    /\ ~proc_exited
    /\ UNCHANGED <<tvars, dvars>>
    /\ rpc[r] = "stepping"
    /\ run_cycles[r] % TimeoutCheckInterval = 0
    /\ exc' = [exc EXCEPT ![r] = Raised("TimeoutError")]
    /\ rpc' = [rpc EXCEPT ![r] = "icpt_restore"]
    /\ UNCHANGED <<req_qasm, trace_lock, trace_in_progress, trace_start_time,
                   acquired, releases, outcome, sys_exit, exit_intercept_lock,
                   original_exit, exit_info, sim_built, run_cycles, proc_exited>>

\* One whole cycle (transfer, recorder, update, tick), then the max_cycles check.
LoopCycle(r) ==
    /\ ~proc_exited
    /\ UNCHANGED <<tvars, dvars>>
    /\ rpc[r] = "stepping"
    /\ run_cycles[r] <= MaxCycles
    /\ run_cycles' = [run_cycles EXCEPT ![r] = @ + 1]
    /\ rpc' = [rpc EXCEPT ![r] =
                 IF run_cycles[r] + 1 > MaxCycles THEN "icpt_restore" ELSE "stepping"]
    /\ UNCHANGED <<req_qasm, trace_lock, trace_in_progress, trace_start_time,
                   acquired, releases, exc, outcome, sys_exit,
                   exit_intercept_lock, original_exit, exit_info, sim_built,
                   proc_exited>>

\* Inside a phase the simulator calls sys.exit(code): whatever is installed as
\* the process-wide exit primitive runs. _intercepted_exit records the call in
\* its exit_info and raises RuntimeError carrying the code; the original
\* primitive ends the process.
SimCallsExit(r, code) ==
    /\ ~proc_exited
    /\ UNCHANGED <<tvars, dvars>>
    /\ rpc[r] = "stepping"
    /\ IF sys_exit = 0
         THEN /\ proc_exited' = TRUE
              /\ UNCHANGED <<rpc, exc, exit_info>>
         ELSE /\ exit_info' = [exit_info EXCEPT ![sys_exit] =
                                  [called |-> TRUE, code |-> code]]
              /\ exc' = [exc EXCEPT ![r] = [type |-> "RuntimeError", code |-> code]]
              /\ rpc' = [rpc EXCEPT ![r] = "icpt_restore"]
              /\ UNCHANGED proc_exited
    /\ UNCHANGED <<req_qasm, trace_lock, trace_in_progress, trace_start_time,
                   acquired, releases, outcome, sys_exit, exit_intercept_lock,
                   original_exit, sim_built, run_cycles>>

\* Inside a phase the simulator raises some other exception.
SimRaises(r) ==
    /\ ~proc_exited
    /\ UNCHANGED <<tvars, dvars>>
    /\ rpc[r] = "stepping"
    /\ exc' = [exc EXCEPT ![r] = Raised("Exception")]
    /\ rpc' = [rpc EXCEPT ![r] = "icpt_restore"]
    /\ UNCHANGED <<req_qasm, trace_lock, trace_in_progress, trace_start_time,
                   acquired, releases, outcome, sys_exit, exit_intercept_lock,
                   original_exit, exit_info, sim_built, run_cycles, proc_exited>>

\* The primitive is put back only when the scope ends without an exception.
RestoreOnSuccessOnly(r) ==
    /\ ~proc_exited
    /\ UNCHANGED <<tvars, dvars>>
    /\ rpc[r] = "icpt_restore"
    /\ sys_exit' = IF exc[r] = NoExc THEN original_exit[r] ELSE sys_exit
    /\ rpc' = [rpc EXCEPT ![r] = "icpt_unlock"]
    /\ UNCHANGED <<req_qasm, trace_lock, trace_in_progress, trace_start_time,
                   acquired, releases, exc, outcome, exit_intercept_lock,
                   original_exit, exit_info, sim_built, run_cycles, proc_exited>>

\* finally: sys.exit = original_exit
InterceptRestore(r) ==
    /\ ~proc_exited
    /\ UNCHANGED <<tvars, dvars>>
    /\ rpc[r] = "icpt_restore"
    /\ sys_exit' = original_exit[r]
    /\ rpc' = [rpc EXCEPT ![r] = "icpt_unlock"]
    /\ UNCHANGED <<req_qasm, trace_lock, trace_in_progress, trace_start_time,
                   acquired, releases, exc, outcome, exit_intercept_lock,
                   original_exit, exit_info, sim_built, run_cycles, proc_exited>>
\* The interceptor lock is kept when the scope is left.
InterceptUnlockKeepsLock(r) ==
    /\ ~proc_exited
    /\ UNCHANGED <<tvars, dvars>>
    /\ rpc[r] = "icpt_unlock"
    /\ rpc' = [rpc EXCEPT ![r] = IF exc[r] = NoExc THEN "respond" ELSE "handler"]
    /\ UNCHANGED <<req_qasm, trace_lock, trace_in_progress, trace_start_time,
                   acquired, releases, exc, outcome, sys_exit,
                   exit_intercept_lock, original_exit, exit_info, sim_built,
                   run_cycles, proc_exited>>

\* Leaving `with _exit_intercept_lock:` releases the lock; an exception in
\* flight goes on to the caller, otherwise the report is built.
InterceptUnlock(r) ==
    /\ ~proc_exited
    /\ UNCHANGED <<tvars, dvars>>
    /\ rpc[r] = "icpt_unlock"
    /\ exit_intercept_lock' = 0
    /\ rpc' = [rpc EXCEPT ![r] = IF exc[r] = NoExc THEN "respond" ELSE "handler"]
    /\ UNCHANGED <<req_qasm, trace_lock, trace_in_progress, trace_start_time,
                   acquired, releases, exc, outcome, sys_exit, original_exit,
                   exit_info, sim_built, run_cycles, proc_exited>>

\* Steps 5-6 of the backend return the report; trace() then compares the
\* elapsed time with TRACE_TIMEOUT_SECONDS: HTTPException(504) or the response.
Respond(r) ==
    /\ ~proc_exited
    /\ UNCHANGED <<tvars, dvars>>
    /\ rpc[r] = "respond"
    /\ \E late \in BOOLEAN :
          outcome' = [outcome EXCEPT ![r] = IF late THEN 504 ELSE 200]
    /\ rpc' = [rpc EXCEPT ![r] = "fin_flag"]
    /\ UNCHANGED <<req_qasm, trace_lock, trace_in_progress, trace_start_time,
                   acquired, releases, exc, sys_exit, exit_intercept_lock,
                   original_exit, exit_info, sim_built, run_cycles, proc_exited>>

\* The except clauses of trace().
HttpStatus(e) ==
    CASE e.type = "HTTP400" -> 400
      [] e.type = "FileNotFoundError" -> 400
      [] e.type = "TimeoutError" -> 504
      [] e.type = "RuntimeError" -> 400
      [] OTHER -> 500

ExceptHandler(r) ==
    /\ ~proc_exited
    /\ UNCHANGED <<tvars, dvars>>
    /\ rpc[r] = "handler"
    /\ outcome' = [outcome EXCEPT ![r] = HttpStatus(exc[r])]
    /\ rpc' = [rpc EXCEPT ![r] = "fin_flag"]
    /\ UNCHANGED <<req_qasm, trace_lock, trace_in_progress, trace_start_time,
                   acquired, releases, exc, sys_exit, exit_intercept_lock,
                   original_exit, exit_info, sim_built, run_cycles, proc_exited>>
\* The finally clause leaves the flag as it is.
FinallyFlagKeeps(r) ==
    /\ ~proc_exited
    /\ UNCHANGED <<tvars, dvars>>
    /\ rpc[r] = "fin_flag"
    /\ rpc' = [rpc EXCEPT ![r] = "fin_start"]
    /\ UNCHANGED <<req_qasm, trace_lock, trace_in_progress, trace_start_time,
                   acquired, releases, exc, outcome, sys_exit,
                   exit_intercept_lock, original_exit, exit_info, sim_built,
                   run_cycles, proc_exited>>

\* finally: _trace_in_progress = False
FinallyFlag(r) ==
    /\ ~proc_exited
    /\ UNCHANGED <<tvars, dvars>>
    /\ rpc[r] = "fin_flag"
    /\ trace_in_progress' = FALSE
    /\ rpc' = [rpc EXCEPT ![r] = "fin_start"]
    /\ UNCHANGED <<req_qasm, trace_lock, trace_start_time, acquired, releases,
                   exc, outcome, sys_exit, exit_intercept_lock, original_exit,
                   exit_info, sim_built, run_cycles, proc_exited>>

\* finally: _trace_start_time = None
FinallyStart(r) ==
    /\ ~proc_exited
    /\ UNCHANGED <<tvars, dvars>>
    /\ rpc[r] = "fin_start"
    /\ trace_start_time' = "None"
    /\ rpc' = [rpc EXCEPT ![r] = "fin_release"]
    /\ UNCHANGED <<req_qasm, trace_lock, trace_in_progress, acquired, releases,
                   exc, outcome, sys_exit, exit_intercept_lock, original_exit,
                   exit_info, sim_built, run_cycles, proc_exited>>

\* The release sits at the end of the try block: an exception skips it.
ReleaseOnSuccessOnly(r) ==
    /\ ~proc_exited
    /\ UNCHANGED <<tvars, dvars>>
    /\ rpc[r] = "fin_release"
    /\ IF exc[r] = NoExc
         THEN /\ trace_lock' = FALSE
              /\ releases' = [releases EXCEPT ![r] = @ + 1]
         ELSE UNCHANGED <<trace_lock, releases>>
    /\ rpc' = [rpc EXCEPT ![r] = "done"]
    /\ UNCHANGED <<req_qasm, trace_in_progress, trace_start_time, acquired, exc,
                   outcome, sys_exit, exit_intercept_lock, original_exit,
                   exit_info, sim_built, run_cycles, proc_exited>>

\* finally: _trace_lock.release()
FinallyRelease(r) ==
    /\ ~proc_exited
    /\ UNCHANGED <<tvars, dvars>>
    /\ rpc[r] = "fin_release"
    /\ trace_lock' = FALSE
    /\ releases' = [releases EXCEPT ![r] = @ + 1]
    /\ rpc' = [rpc EXCEPT ![r] = "done"]
    /\ UNCHANGED <<req_qasm, trace_in_progress, trace_start_time, acquired, exc,
                   outcome, sys_exit, exit_intercept_lock, original_exit,
                   exit_info, sim_built, run_cycles, proc_exited>>

GateInit == GateIdle /\ TraceIdle /\ DiffIdle

GateNext ==
    \E r \in Reqs :
          \/ Arrive(r)
          \/ CheckEmpty(r)
          \/ Acquire(r)
          \/ SetInProgress(r)
          \/ SetStartTime(r)
          \/ Validate(r)
          \/ Compile(r)
          \/ SimSetup(r)
          \/ InterceptCapture(r)
          \/ InterceptLock(r)
          \/ InterceptInstall(r)
          \/ LoopDone(r)
          \/ LoopTimeout(r)
          \/ LoopCycle(r)
          \/ \E code \in ExitCodes : SimCallsExit(r, code)
          \/ SimRaises(r)
          \/ InterceptRestore(r)
          \/ InterceptUnlock(r)
          \/ Respond(r)
          \/ ExceptHandler(r)
          \/ FinallyFlag(r)
          \/ FinallyStart(r)
          \/ FinallyRelease(r)

Init == GateInit
Next == GateNext
Spec == Init /\ [][Next]_vars

\* ======================================================================
\*  Claims about the Serialization Gate and the Escape Interceptor (Spec)
\* ======================================================================
\* Positions of trace() between a successful acquire and the release.
HoldingPcs == {"set_flag", "set_start", "validate", "compile", "sim_setup",
               "icpt_capture", "icpt_lock", "icpt_install", "stepping",
               "icpt_restore", "icpt_unlock", "respond", "handler",
               "fin_flag", "fin_start", "fin_release"}
\* Positions at which a trace execution (simulator, loop, interception) runs.
ExecutingPcs == {"sim_setup", "icpt_capture", "icpt_lock", "icpt_install",
                 "stepping", "icpt_restore", "icpt_unlock", "respond"}
\* Positions at which the replacement installed by the request is in place.
ScopePcs == {"stepping", "icpt_restore"}

\* C1: at most one request at a time is between a successful gate acquisition
\* and its release, hence at most one trace execution is in flight.
C1_MutualExclusion ==
    /\ Cardinality({r \in Reqs : rpc[r] \in HoldingPcs}) <= 1
    /\ Cardinality({r \in Reqs : rpc[r] \in ExecutingPcs}) <= 1

C1_Witness ==
    \E r, s \in Reqs : r # s /\ rpc[r] = "stepping" /\ rpc[s] = "acquire"

\* C2: a non-empty request that attempts the gate while it is held is never
\* made to wait (its acquire step can always be taken) and that step ends it
\* with 429, no simulator constructed and no cycle executed.
C2_FastFail ==
    /\ [](\A r \in Reqs : rpc[r] = "acquire" => ENABLED Acquire(r))
    /\ [][\A r \in Reqs :
            (rpc[r] = "acquire" /\ trace_lock /\ rpc'[r] # rpc[r])
               => /\ rpc'[r] = "done"
                  /\ outcome'[r] = 429
                  /\ ~sim_built'[r]
                  /\ run_cycles'[r] = 0
                  /\ trace_lock']_vars
    /\ [](\A r \in Reqs : outcome[r] = 429 => ~sim_built[r] /\ run_cycles[r] = 0)

C2_Witness ==
    \E r, s \in Reqs :
        /\ r # s
        /\ rpc[r] \in HoldingPcs
        /\ rpc[s] = "done" /\ outcome[s] = 429 /\ req_qasm[s] # "empty"

\* C3: a request that acquired the gate and ended, with whatever outcome, has
\* released it exactly once; when no request is between acquire and release the
\* gate is free and the in-progress flag is false, so the next request can run.
C3_GateReleased ==
    /\ \A r \in Reqs : releases[r] <= 1
    /\ \A r \in Reqs : rpc[r] = "done" => releases[r] = (IF acquired[r] THEN 1 ELSE 0)
    /\ (\A r \in Reqs : rpc[r] \notin HoldingPcs)
          => (~trace_lock /\ ~trace_in_progress)

\* A request ended by an intercepted simulator exit, another one is stepping.
C3_Witness ==
    \E r, s \in Reqs :
        /\ r # s
        /\ rpc[r] = "done" /\ acquired[r] /\ outcome[r] = 400
        /\ exc[r].type = "RuntimeError" /\ exit_info[r].called
        /\ rpc[s] = "stepping"

C5_ExitRestored ==
    /\ \A r \in Reqs : rpc[r] = "icpt_unlock" => sys_exit = original_exit[r]
    /\ (\A r \in Reqs : rpc[r] \notin ScopePcs) => sys_exit = 0

\* The scope was left by the timeout signal.
C5_Witness ==
    \E r \in Reqs :
        /\ rpc[r] = "handler" /\ exc[r].type = "TimeoutError"
        /\ sim_built[r] /\ sys_exit = 0

\* ======================================================================
\*  patch_trace_backend.py: Patch Snapshot & Delta Engine
\* ======================================================================
\* sim.param: the grid of the configured simulator.
num_pchcol == 2
num_pch == NumPch
PchIdx == 0..(num_pch - 1)

\* One entry of the PIU arrays, all five observed attributes of a patch:
\* pchinfo_static_ram[i]["pchtype"], facebd_ram[i], cornerbd_ram[i],
\* merged_reg[i], merged_mem[i].
Cell(t, f, c, mr, mm) ==
    [pchtype |-> t, facebd |-> f, cornerbd |-> c, merged_reg |-> mr, merged_mem |-> mm]
BlankBd == <<"i", "i", "i", "i">>
CellInit == Cell("i", BlankBd, BlankBd, 0, 0)
\* The idle cell and the cells that differ from it in exactly one attribute.
Cells == {CellInit,
          Cell("zb", BlankBd, BlankBd, 0, 0),
          Cell("i", <<"z", "x", "pp", "x">>, BlankBd, 0, 0),
          Cell("i", BlankBd, <<"z", "i", "i", "ie">>, 0, 0),
          Cell("i", BlankBd, BlankBd, 1, 0),
          Cell("i", BlankBd, BlankBd, 0, 1)}
\* Contents of the PIU arrays, indexed by pchidx.
PiuRams == [PchIdx -> Cells]
\* The cells the stepped simulator moves its patches between.
SimCells == {CellInit, Cell("zb", BlankBd, BlankBd, 0, 0)}

\* _to_json_safe on the values the PIU arrays hold here: text (and None) is
\* returned as it is.
ToJsonSafe(v) == v

\* _format_facebd: unpacking order (w, n, e, s); not four slots: blanks.
FormatFacebd(l) ==
    IF Len(l) # 4
      THEN [w |-> "", n |-> "", e |-> "", s |-> ""]
      ELSE [w |-> ToJsonSafe(l[1]), n |-> ToJsonSafe(l[2]),
            e |-> ToJsonSafe(l[3]), s |-> ToJsonSafe(l[4])]

\* _format_cornerbd: unpacking order (nw, ne, sw, se).
FormatCornerbd(l) ==
    IF Len(l) # 4
      THEN [nw |-> "", ne |-> "", sw |-> "", se |-> ""]
      ELSE [nw |-> ToJsonSafe(l[1]), ne |-> ToJsonSafe(l[2]),
            sw |-> ToJsonSafe(l[3]), se |-> ToJsonSafe(l[4])]

\* The record _take_full_patch_snapshot appends for pchidx.
PatchRecord(ram, pchidx) ==
    [pchidx |-> pchidx,
     row |-> pchidx \div num_pchcol,
     col |-> pchidx % num_pchcol,
     pchtype |-> ToJsonSafe(ram[pchidx].pchtype),
     merged |-> [reg |-> ram[pchidx].merged_reg, mem |-> ram[pchidx].merged_mem],
     facebd |-> FormatFacebd(ram[pchidx].facebd),
     cornerbd |-> FormatCornerbd(ram[pchidx].cornerbd)]

\* _take_full_patch_snapshot: PatchSnapshot.patches, the records of pchidx
\* 0..num_pch-1 in this order (position k holds pchidx k-1).
TakeFullPatchSnapshot(ram) ==
    [k \in 1..num_pch |-> PatchRecord(ram, k - 1)]

Min(a, b) == IF a < b THEN a ELSE b

RECURSIVE DiffFrom(_, _, _)
\* for p_prev, p_cur in zip(prev, cur): from position k on.
DiffFrom(prev, cur, k) ==
    IF k > Min(Len(prev), Len(cur))
      THEN <<>>
      ELSE (IF prev[k] # cur[k] THEN <<cur[k]>> ELSE <<>>) \o DiffFrom(prev, cur, k + 1)

\* The comparison is inverted: the unchanged patches are reported.
DiffInverted(prev, cur) ==
    SelectSeq(SubSeq(cur, 1, Min(Len(prev), Len(cur))),
              LAMBDA rec : prev[rec.pchidx + 1] = rec)

\* The record of the older snapshot is reported for a changed patch.
DiffReportsPrev(prev, cur) ==
    SelectSeq(SubSeq(prev, 1, Min(Len(prev), Len(cur))),
              LAMBDA rec : cur[rec.pchidx + 1] # rec)

\* Only the kind and the merged flags are compared, not the boundaries.
DiffIgnoresBoundaries(prev, cur) ==
    SelectSeq(SubSeq(cur, 1, Min(Len(prev), Len(cur))),
              LAMBDA rec : \/ prev[rec.pchidx + 1].pchtype # rec.pchtype
                           \/ prev[rec.pchidx + 1].merged # rec.merged)

\* Only the first changed patch is reported.
DiffFirstChanged(prev, cur) ==
    LET d == DiffFrom(prev, cur, 1)
    IN IF d = <<>> THEN <<>> ELSE <<d[1]>>

\* _diff_patch_snapshots
DiffPatchSnapshots(prev, cur) == DiffFrom(prev, cur, 1)

\* ---------------------------------------------------------------- DiffSpec
\* Two snapshots of one simulator are drawn, then the function is applied.
DiffInit ==
    /\ GateIdle /\ TraceIdle /\ NormIdle /\ SnapIdle /\ AliasIdle
    /\ dpc = "drawn"
    /\ \E a, b \in PiuRams :
          /\ dprev = TakeFullPatchSnapshot(a)
          /\ dcur = TakeFullPatchSnapshot(b)
    /\ deltas = <<>>

ApplyDiff ==
    /\ dpc = "drawn"
    /\ deltas' = DiffPatchSnapshots(dprev, dcur)
    /\ dpc' = "done"
    /\ UNCHANGED <<dprev, dcur, nvars, svars, avars, gvars, tvars>>

DiffNext == ApplyDiff
DiffSpec == DiffInit /\ [][DiffNext]_vars

\* C10: for every snapshot S, diff(S, S) is the empty delta.
C10_DiffReflexive ==
    (dpc = "done" /\ dprev = dcur) => deltas = <<>>

\* The function was applied to a snapshot (with a non-idle patch) and itself.
C10_Witness ==
    /\ dpc = "done" /\ dprev = dcur
    /\ \E k \in 1..Len(dcur) : dcur[k].pchtype = "zb"

\* C11: every record of diff(P, C) is the record of C at some index i and
\* differs from the record of P at the same index; a record equal to its
\* same-index counterpart is never in the delta.
C11_NoFalsePositives ==
    dpc = "done" =>
        /\ \A k \in 1..Len(deltas) :
              \E i \in 1..Len(dcur) : deltas[k] = dcur[i] /\ dcur[i] # dprev[i]
        /\ \A i \in 1..Len(dcur) :
              dcur[i] = dprev[i] => \A k \in 1..Len(deltas) : deltas[k] # dcur[i]

\* One patch changed (only in a corner boundary label), another one did not:
\* the delta holds the changed one alone.
C11_Witness ==
    /\ dpc = "done"
    /\ Len(deltas) = 1
    /\ dcur[deltas[1].pchidx + 1].cornerbd # dprev[deltas[1].pchidx + 1].cornerbd
    /\ \E i \in 1..Len(dcur) : dcur[i] = dprev[i] /\ dcur[i].pchtype = "zb"

\* The observed attributes of the records at position i are the same.
SameObserved(i) ==
    /\ dprev[i].pchtype = dcur[i].pchtype
    /\ dprev[i].merged.reg = dcur[i].merged.reg
    /\ dprev[i].merged.mem = dcur[i].merged.mem
    /\ \A d \in {"w", "n", "e", "s"} : dprev[i].facebd[d] = dcur[i].facebd[d]
    /\ \A d \in {"nw", "ne", "sw", "se"} : dprev[i].cornerbd[d] = dcur[i].cornerbd[d]

\* C12: for snapshots over the same index space, diff(P, C) holds the C-record
\* of every index whose record differs, exactly once and in increasing index
\* order; the delta is empty iff no observed attribute (kind, merged flags,
\* face boundary, corner boundary) of any patch changed.
C12_DiffComplete ==
    dpc = "done" =>
        /\ \A i \in 1..Len(dcur) :
              dcur[i] # dprev[i]
                 => Cardinality({k \in 1..Len(deltas) : deltas[k] = dcur[i]}) = 1
        /\ \A k \in 1..(Len(deltas) - 1) : deltas[k].pchidx < deltas[k + 1].pchidx
        /\ (deltas = <<>>) <=> (\A i \in 1..Len(dcur) : SameObserved(i))

\* Every patch changed, each one in a different attribute: the delta holds
\* all of them in index order.
C12_Witness ==
    /\ dpc = "done"
    /\ Len(deltas) = num_pch
    /\ \A k \in 1..Len(deltas) : deltas[k].pchidx = k - 1
    /\ dcur[1].facebd # dprev[1].facebd /\ dcur[1].pchtype = dprev[1].pchtype
    /\ dcur[2].merged.mem # dprev[2].merged.mem /\ dcur[2].facebd = dprev[2].facebd

\* ======================================================================
\*  patch_trace_backend.py: trace_patches_from_qasm, the stepping loop
\*  (TraceSpec: one invocation; the simulator is the collaborator of spec
\*  section 6, its phases change its state as that interface allows)
\* ======================================================================
EVENT_INSTS == {"PREP_INFO", "MERGE_INFO", "SPLIT_INFO"}

\* sim.param.<NAME>_opcode, in the order _opcode_to_inst_name builds its dict.
ParamOpcodes ==
    << <<"b_prep", "PREP_INFO">>, <<"b_merge", "MERGE_INFO">>,
       <<"b_split", "SPLIT_INFO">>, <<"b_lqi", "LQI">>,
       <<"b_esm", "RUN_ESM">>, <<"b_init", "INIT_INTMD">>,
       <<"b_meas", "MEAS_INTMD">>, <<"b_ppm", "PPM_INTERPRET">>,
       <<"b_lqmx", "LQM_X">>, <<"b_lqmy", "LQM_Y">>,
       <<"b_lqmz", "LQM_Z">>, <<"b_lqmfb", "LQM_FB">> >>

\* Opcode signals the instruction-accepting unit shows in the model.
InputOpcodes == {"b_prep", "b_merge", "b_split", "b_esm", "None"}

\* _opcode_to_inst_name: None for no opcode or an unknown one; a later entry
\* of the dict replaces an earlier one with the same key.
OpcodeToInstName(opcode_bits) ==
    IF opcode_bits = "None"
      THEN "None"
      ELSE LET hits == {k \in 1..Len(ParamOpcodes) : ParamOpcodes[k][1] = opcode_bits}
           IN IF hits = {}
                THEN "None"
                ELSE ParamOpcodes[CHOOSE k \in hits : \A j \in hits : j <= k][2]

\* accepted = bool(sim.piu.take_input) and (not bool(sim.piu.input_stall))
Accepted(s) == s.take_input /\ ~s.input_stall

\* Every named instruction counts as an event instruction.
AnyNamedInst(inst_name) == inst_name # "None"

\* if inst_name in EVENT_INSTS
IsEventInst(inst_name) == inst_name \in EVENT_INSTS

\* The baseline is never advanced.
BaselineKept(prev, cur) == prev

\* prev_snapshot = cur_snapshot
NewBaseline(prev, cur) == cur

\* Sequence numbers start at 1.
EventsOneBased(evs, cyc, qisa_idx, inst_name, patch_delta) ==
    Append(evs, [seq |-> Len(evs) + 1, cycle |-> cyc, qisa_idx |-> qisa_idx,
                 inst |-> inst_name, patch_delta |-> patch_delta])

\* One event is appended for each changed patch.
EventPerPatch(evs, cyc, qisa_idx, inst_name, patch_delta) ==
    evs \o [k \in 1..Len(patch_delta) |->
               [seq |-> Len(evs) + k - 1, cycle |-> cyc, qisa_idx |-> qisa_idx,
                inst |-> inst_name, patch_delta |-> <<patch_delta[k]>>]]

\* events.append({"seq": len(events), "cycle": ..., "qisa_idx": ..., ...})
AppendEvent(evs, cyc, qisa_idx, inst_name, patch_delta) ==
    Append(evs, [seq |-> Len(evs), cycle |-> cyc, qisa_idx |-> qisa_idx,
                 inst |-> inst_name, patch_delta |-> patch_delta])

\* _qc_paths(job_name): the transient files of the job.
JobFiles == {"qasm", "qtrp", "qisa", "qbin"}
\* os.remove(p) raising something else than FileNotFoundError: the files
\* whose removal fails.
RemoveFailures == {{}, {"qbin"}}

\* The state of a simulator after setup: cycle 0, nothing accepted yet, every
\* patch idle.
SimAfterSetup(done) ==
    [cycle |-> 0, sim_done |-> done, take_input |-> FALSE, input_stall |-> FALSE,
     input_opcode |-> "None", ram |-> [i \in PchIdx |-> CellInit]]

\* Lines 604-674: the simulator is set up, the initial snapshot is taken, the
\* counters are reset. The inputs of the invocation are drawn here.
TraceInit ==
    /\ GateIdle /\ DiffIdle
    /\ pc = "head"
    /\ \E done \in BOOLEAN : sim = SimAfterSetup(done)
    /\ patch_initial = TakeFullPatchSnapshot(sim.ram)
    /\ prev_snapshot = patch_initial
    /\ events = <<>>
    /\ accepted_inst_count = 0
    /\ termination_reason = "normal"
    /\ timeout_seconds \in {"None", "set"}
    /\ trace_meta = [forced_terminations |-> <<>>, warnings |-> <<>>,
                     stability_check_failures |-> <<>>]
    /\ error = "none"
    /\ response = <<>>
    /\ is_stable = FALSE
    /\ exit_called = FALSE
    \* lines 588-602: the compiler pipeline has written the files of the job;
    \* artifact retention is off (the default of the API's keep_artifacts).
    /\ artifacts = JobFiles
    /\ keep_artifacts = FALSE
    /\ phase_calls = <<>>

\* The wall clock is read in every iteration, whatever the cycle counter is.
LoopHeadChecksEveryCycle ==
    /\ pc = "head"
    /\ IF sim.sim_done
         THEN /\ pc' = "build"
              /\ UNCHANGED <<termination_reason, trace_meta, error>>
         ELSE \/ /\ pc' = "transfer"
                 /\ UNCHANGED <<termination_reason, trace_meta, error>>
              \/ /\ timeout_seconds # "None"
                 \* elapsed > timeout_seconds
                 /\ termination_reason' = "timeout"
                 /\ trace_meta' =
                      [trace_meta EXCEPT
                         !.warnings = Append(@, "timed_out"),
                         !.forced_terminations =
                            Append(@, [unit |-> "global", cycle |-> sim.cycle,
                                       reason |-> "timeout"])]
                 /\ error' = "TimeoutError"
                 /\ pc' = "raised"
    /\ UNCHANGED <<sim, patch_initial, prev_snapshot, events, accepted_inst_count,
                   timeout_seconds, response, xvars, gvars, dvars>>

\* The timeout is recorded and the iteration goes on: nothing is raised.
LoopHeadTimeoutContinues ==
    /\ pc = "head"
    /\ IF sim.sim_done
         THEN /\ pc' = "build"
              /\ UNCHANGED <<termination_reason, trace_meta, error>>
         ELSE \/ /\ pc' = "transfer"
                 /\ UNCHANGED <<termination_reason, trace_meta, error>>
              \/ /\ timeout_seconds # "None"
                 /\ sim.cycle % TimeoutCheckInterval = 0
                 \* elapsed > timeout_seconds
                 /\ termination_reason' = "timeout"
                 /\ trace_meta' =
                      [trace_meta EXCEPT
                         !.warnings = Append(@, "timed_out"),
                         !.forced_terminations =
                            Append(@, [unit |-> "global", cycle |-> sim.cycle,
                                       reason |-> "timeout"])]
                 /\ error' = error
                 /\ pc' = "transfer"
    /\ UNCHANGED <<sim, patch_initial, prev_snapshot, events, accepted_inst_count,
                   timeout_seconds, response, xvars, gvars, dvars>>

\* while not sim.sim_done: and the periodic timeout check of lines 678-695.
LoopHead ==
    /\ pc = "head"
    /\ IF sim.sim_done
         THEN /\ pc' = "build"
              /\ UNCHANGED <<termination_reason, trace_meta, error>>
         ELSE \/ /\ pc' = "transfer"
                 /\ UNCHANGED <<termination_reason, trace_meta, error>>
              \/ /\ timeout_seconds # "None"
                 /\ sim.cycle % TimeoutCheckInterval = 0
                 \* elapsed > timeout_seconds
                 /\ termination_reason' = "timeout"
                 /\ trace_meta' =
                      [trace_meta EXCEPT
                         !.warnings = Append(@, "timed_out"),
                         !.forced_terminations =
                            Append(@, [unit |-> "global", cycle |-> sim.cycle,
                                       reason |-> "timeout"])]
                 /\ error' = "TimeoutError"
                 /\ pc' = "raised"
    /\ UNCHANGED <<sim, patch_initial, prev_snapshot, events, accepted_inst_count,
                   timeout_seconds, response, xvars, gvars, dvars>>

\* The update phase follows the transfer phase at once: no recorder step.
TransferSkipsRecorder ==
    /\ pc = "transfer"
    /\ \E ti \in BOOLEAN, st \in BOOLEAN, op \in InputOpcodes :
          sim' = [sim EXCEPT !.take_input = ti, !.input_stall = st,
                             !.input_opcode = op]
    /\ phase_calls' = Append(phase_calls, "transfer")
    /\ pc' = "update"
    /\ UNCHANGED <<patch_initial, prev_snapshot, events, accepted_inst_count,
                   termination_reason, timeout_seconds, trace_meta, error,
                   response, is_stable, exit_called, artifacts, keep_artifacts,
                   gvars, dvars>>

\* sim.run_cycle_transfer(): the instruction-accepting unit shows its
\* acceptance, stall and opcode signals for this cycle.
RunCycleTransfer ==
    /\ pc = "transfer"
    /\ \E ti \in BOOLEAN, st \in BOOLEAN, op \in InputOpcodes :
          sim' = [sim EXCEPT !.take_input = ti, !.input_stall = st,
                             !.input_opcode = op]
    /\ phase_calls' = Append(phase_calls, "transfer")
    /\ pc' = "record"
    /\ UNCHANGED <<patch_initial, prev_snapshot, events, accepted_inst_count,
                   termination_reason, timeout_seconds, trace_meta, error,
                   response, is_stable, exit_called, artifacts, keep_artifacts,
                   gvars, dvars>>

\* The counter advances only for the structurally significant instructions.
RecordEventCountsEvents ==
    /\ pc = "record"
    /\ IF Accepted(sim)
         THEN LET qisa_idx == accepted_inst_count
                  inst_name == OpcodeToInstName(sim.input_opcode)
              IN /\ accepted_inst_count' =
                      IF IsEventInst(inst_name) THEN accepted_inst_count + 1
                                                ELSE accepted_inst_count
                 /\ IF IsEventInst(inst_name)
                      THEN LET cur_snapshot == TakeFullPatchSnapshot(sim.ram)
                               patch_delta ==
                                   DiffPatchSnapshots(prev_snapshot, cur_snapshot)
                           IN /\ prev_snapshot' = NewBaseline(prev_snapshot, cur_snapshot)
                              /\ events' =
                                   IF patch_delta # <<>>
                                     THEN AppendEvent(events, sim.cycle, qisa_idx,
                                                      inst_name, patch_delta)
                                     ELSE events
                      ELSE UNCHANGED <<prev_snapshot, events>>
         ELSE UNCHANGED <<accepted_inst_count, prev_snapshot, events>>
    /\ phase_calls' = Append(phase_calls, "record")
    /\ pc' = "update"
    /\ UNCHANGED <<sim, patch_initial, termination_reason, timeout_seconds,
                   trace_meta, error, response, is_stable, exit_called,
                   artifacts, keep_artifacts, gvars, dvars>>

\* Lines 699-720: the Event Recorder on the post-transfer state.
RecordEvent ==
    /\ pc = "record"
    /\ IF Accepted(sim)
         THEN LET qisa_idx == accepted_inst_count
                  inst_name == OpcodeToInstName(sim.input_opcode)
              IN /\ accepted_inst_count' = accepted_inst_count + 1
                 /\ IF IsEventInst(inst_name)
                      THEN LET cur_snapshot == TakeFullPatchSnapshot(sim.ram)
                               patch_delta ==
                                   DiffPatchSnapshots(prev_snapshot, cur_snapshot)
                           IN /\ prev_snapshot' = NewBaseline(prev_snapshot, cur_snapshot)
                              /\ events' =
                                   IF patch_delta # <<>>
                                     THEN AppendEvent(events, sim.cycle, qisa_idx,
                                                      inst_name, patch_delta)
                                     ELSE events
                      ELSE UNCHANGED <<prev_snapshot, events>>
         ELSE UNCHANGED <<accepted_inst_count, prev_snapshot, events>>
    /\ phase_calls' = Append(phase_calls, "record")
    /\ pc' = "update"
    /\ UNCHANGED <<sim, patch_initial, termination_reason, timeout_seconds,
                   trace_meta, error, response, is_stable, exit_called,
                   artifacts, keep_artifacts, gvars, dvars>>

\* sim.run_cycle_update(): the units compute their next state; the patch arrays
\* change in at most one patch, the completion flag may become true.
RunCycleUpdate ==
    /\ pc = "update"
    /\ \E done \in {sim.sim_done, TRUE} :
          \/ sim' = [sim EXCEPT !.sim_done = done]
          \/ \E i \in PchIdx, c \in SimCells :
                /\ c # sim.ram[i]
                /\ sim' = [sim EXCEPT !.sim_done = done, !.ram[i] = c]
    /\ phase_calls' = Append(phase_calls, "update")
    /\ pc' = "tick"
    /\ UNCHANGED <<patch_initial, prev_snapshot, events, accepted_inst_count,
                   termination_reason, timeout_seconds, trace_meta, error,
                   response, is_stable, exit_called, artifacts, keep_artifacts,
                   gvars, dvars>>

\* sim.run_cycle_tick(): the cycle counter advances by one.
RunCycleTick ==
    /\ pc = "tick"
    /\ sim' = [sim EXCEPT !.cycle = @ + 1]
    /\ phase_calls' = Append(phase_calls, "tick")
    /\ pc' = "max_check"
    /\ UNCHANGED <<patch_initial, prev_snapshot, events, accepted_inst_count,
                   termination_reason, timeout_seconds, trace_meta, error,
                   response, is_stable, exit_called, artifacts, keep_artifacts,
                   gvars, dvars>>

\* The ceiling is compared with >=: the loop is left one cycle early.
MaxCyclesCheckEarly ==
    /\ pc = "max_check"
    /\ IF sim.cycle >= MaxCycles
         THEN /\ termination_reason' = "max_cycles"
              /\ trace_meta' =
                   [trace_meta EXCEPT
                      !.warnings = Append(@, "exceeded_max_cycles"),
                      !.forced_terminations =
                         Append(@, [unit |-> "global", cycle |-> sim.cycle,
                                    reason |-> "max_cycles_exceeded"])]
              /\ pc' = "build"
         ELSE /\ pc' = "head"
              /\ UNCHANGED <<termination_reason, trace_meta>>
    /\ UNCHANGED <<sim, patch_initial, prev_snapshot, events, accepted_inst_count,
                   timeout_seconds, error, response, xvars, gvars, dvars>>

\* if sim.cycle > max_cycles: ... break
MaxCyclesCheck ==
    /\ pc = "max_check"
    /\ IF sim.cycle > MaxCycles
         THEN /\ termination_reason' = "max_cycles"
              /\ trace_meta' =
                   [trace_meta EXCEPT
                      !.warnings = Append(@, "exceeded_max_cycles"),
                      !.forced_terminations =
                         Append(@, [unit |-> "global", cycle |-> sim.cycle,
                                    reason |-> "max_cycles_exceeded"])]
              /\ pc' = "build"
         ELSE /\ pc' = "head"
              /\ UNCHANGED <<termination_reason, trace_meta>>
    /\ UNCHANGED <<sim, patch_initial, prev_snapshot, events, accepted_inst_count,
                   timeout_seconds, error, response, xvars, gvars, dvars>>

\* A phase of the simulator is called and fails: an intercepted exit
\* (RuntimeError) or any other exception leaves the loop and the call.
PhaseFails ==
    /\ pc \in {"transfer", "update", "tick"}
    /\ phase_calls' = Append(phase_calls, pc)
    /\ \E exits \in BOOLEAN :
          /\ exit_called' = (exit_called \/ exits)
          /\ error' = IF exits THEN "RuntimeError" ELSE "Exception"
    /\ pc' = "raised"
    /\ UNCHANGED <<sim, patch_initial, prev_snapshot, events, accepted_inst_count,
                   termination_reason, timeout_seconds, trace_meta, response,
                   is_stable, artifacts, keep_artifacts, gvars, dvars>>

\* Lines 745-802: the report is built, then the files of the job are removed
\* unless they are kept; a removal that fails leaves its file and is reported
\* in the report.
BuildResponse ==
    /\ pc = "build"
    /\ \E failed \in RemoveFailures :
          LET cleanup_failed == ~keep_artifacts /\ (failed \cap artifacts) # {}
          IN /\ artifacts' = IF keep_artifacts THEN artifacts
                                               ELSE failed \cap artifacts
             /\ response' =
                  << [total_cycles |-> sim.cycle,
                      termination_reason |-> termination_reason,
                      forced_terminations |-> trace_meta.forced_terminations,
                      stability_check_failures |->
                          SubSeq(trace_meta.stability_check_failures, 1,
                                 Min(FailuresReported,
                                     Len(trace_meta.stability_check_failures))),
                      warnings |-> trace_meta.warnings,
                      cleanup_failed |-> cleanup_failed,
                      initial |-> patch_initial,
                      events |-> events] >>
    /\ pc' = "returned"
    /\ UNCHANGED <<sim, patch_initial, prev_snapshot, events, accepted_inst_count,
                   termination_reason, timeout_seconds, trace_meta, error,
                   is_stable, exit_called, keep_artifacts, phase_calls,
                   gvars, dvars>>

TraceNext ==
    \/ LoopHead
    \/ RunCycleTransfer
    \/ RecordEvent
    \/ RunCycleUpdate
    \/ RunCycleTick
    \/ MaxCyclesCheck
    \/ PhaseFails
    \/ BuildResponse

TraceSpec == TraceInit /\ [][TraceNext]_vars

\* ======================================================================
\*  Claims about the Event Recorder (TraceSpec)
\* ======================================================================
\* The three opcodes of the structurally significant kinds.
SignificantBits == {"b_prep", "b_merge", "b_split"}
\* The signals of the current cycle: acceptance without stall, of a
\* significant opcode.
AcceptedNow == sim.take_input /\ ~sim.input_stall
SignificantNow == AcceptedNow /\ sim.input_opcode \in SignificantBits
\* Some patch of the simulator differs from its record in the baseline.
PatchesChanged ==
    \E i \in PchIdx :
        \/ prev_snapshot[i + 1].pchtype # sim.ram[i].pchtype
        \/ prev_snapshot[i + 1].merged.reg # sim.ram[i].merged_reg
        \/ prev_snapshot[i + 1].merged.mem # sim.ram[i].merged_mem
        \/ <<prev_snapshot[i + 1].facebd.w, prev_snapshot[i + 1].facebd.n,
             prev_snapshot[i + 1].facebd.e, prev_snapshot[i + 1].facebd.s>>
              # sim.ram[i].facebd
        \/ <<prev_snapshot[i + 1].cornerbd.nw, prev_snapshot[i + 1].cornerbd.ne,
             prev_snapshot[i + 1].cornerbd.sw, prev_snapshot[i + 1].cornerbd.se>>
              # sim.ram[i].cornerbd

\* C6: a step appends an event if and only if it is the recorder step of a
\* cycle whose post-transfer signals show acceptance without stall of a
\* significant opcode while some patch differs from the baseline; a step never
\* appends more than one event, and no two events carry the same cycle.
C6_EventCondition ==
    /\ [][/\ Len(events') \in {Len(events), Len(events) + 1}
          /\ (Len(events') = Len(events) + 1)
                <=> (pc = "record" /\ SignificantNow /\ PatchesChanged)]_vars
    /\ [](\A i, j \in 1..Len(events) : i # j => events[i].cycle # events[j].cycle)

\* The recorder has just accepted a non-significant instruction while a patch
\* differed from the baseline and appended nothing; an earlier cycle did
\* produce an event.
C6_Witness ==
    /\ pc = "update"
    /\ AcceptedNow /\ sim.input_opcode = "b_esm"
    /\ PatchesChanged
    /\ Len(events) = 1 /\ events[1].cycle < sim.cycle

\* C7: the event list only grows at its end and the i-th event appended has
\* seq = i (counting from 0).
C7_SeqNumbers ==
    /\ [](\A i \in 1..Len(events) : events[i].seq = i - 1)
    /\ [][Len(events') >= Len(events)
          /\ SubSeq(events', 1, Len(events)) = events]_vars

\* Two events were appended, by a merge and then a split.
C7_Witness ==
    /\ Len(events) = 2
    /\ events[1].inst = "MERGE_INFO" /\ events[2].inst = "SPLIT_INFO"
    /\ events[2].seq = 1

\* C8: consecutive events have strictly increasing cycles.
C8_CycleOrder ==
    \A i \in 1..(Len(events) - 1) : events[i].cycle < events[i + 1].cycle

\* Two events of consecutive cycles, the trace then ended at the ceiling.
C8_Witness ==
    /\ Len(events) = 2
    /\ events[2].cycle = events[1].cycle + 1
    /\ pc = "returned" /\ termination_reason = "max_cycles"

\* C9: the recorder step of an accepted significant instruction makes the
\* snapshot just taken the baseline, with or without an event; the delta of an
\* appended event holds the patches that differ from the baseline as it was
\* before the step; every other step leaves the baseline as it is.
C9_Baseline ==
    [][IF pc = "record" /\ SignificantNow
         THEN /\ prev_snapshot' = TakeFullPatchSnapshot(sim.ram)
              /\ Len(events') > Len(events)
                    => events'[Len(events')].patch_delta =
                          SelectSeq(TakeFullPatchSnapshot(sim.ram),
                                    LAMBDA rec : rec # prev_snapshot[rec.pchidx + 1])
         ELSE prev_snapshot' = prev_snapshot]_vars

\* The second event was measured against the baseline of the first one, not
\* against the initial snapshot: it reports only the patch that changed since.
C9_Witness ==
    /\ Len(events) = 2
    /\ Len(events[2].patch_delta) = 1
    /\ Len(SelectSeq(prev_snapshot,
                     LAMBDA rec : rec # patch_initial[rec.pchidx + 1])) = 2

\* ======================================================================
\*  patch_trace_backend.py: Stability Oracle (_safe_getattr,
\*  _check_system_stable) and the done-fix wrappers of qif/lmu transfer
\* ======================================================================
\* Attribute paths of the simulator's subunits read by the driver. A value is
\* text: "T"/"F" booleans, unit states, "buf"/"None" for a sub-buffer, "[]" or
\* "[m]" for a measurement memory; "absent": no such attribute, "raises": the
\* read raises, "exits": the read calls the exit primitive, which is the
\* interceptor's replacement and raises RuntimeError.
Attrs ==
    {"qif.all_fetched", "qif.done",
     "qid.to_pchdec_buf", "qid.to_pchdec_buf.empty",
     "qid.to_lqmeas_buf", "qid.to_lqmeas_buf.empty",
     "pdu.state", "piu.state", "piu.output_topsu_valid", "piu.output_tolmu_valid",
     "psu.state", "psu.pchinfo_srmem", "psu.pchinfo_srmem.output_notempty",
     "tcu.output_timebuf_empty", "pfu.state",
     "lmu.instinfo_valid", "lmu.done", "lmu.state",
     "qxu.dq_meas_mem", "qxu.aq_meas_mem"}

Unreadable == {"absent", "raises", "exits"}

\* bool(value) of Python on the values above.
Bool(v) == v \notin {"F", "None", "[]"}

\* _safe_getattr(obj, attr, default) -> (value, success): hasattr is false, or
\* hasattr/getattr raise an Exception: (default, False).
SafeGetattr(u, attr, default) ==
    IF u[attr] \in Unreadable THEN <<default, FALSE>> ELSE <<u[attr], TRUE>>

\* One entry of the conditions dict: name -> (value, observable).
Cond(n, v, o) == [name |-> n, val |-> v, obs |-> o]

\* The condition of a sub-buffer (lines 395-407, 427-432): the buffer is read,
\* then its attribute; a buffer that is unreadable or None gives (False, False).
SubBufferCond(u, n, buf, attr, default, negate) ==
    LET b == SafeGetattr(u, buf, "None")
    IN IF b[2] /\ b[1] # "None"
         THEN LET e == SafeGetattr(u, attr, default)
              IN Cond(n, IF negate THEN ~Bool(e[1]) ELSE Bool(e[1]), e[2])
         ELSE Cond(n, FALSE, FALSE)

\* The conditions dict of _check_system_stable, in insertion order.
Conditions(u) ==
    LET qif == SafeGetattr(u, "qif.all_fetched", "F")
        pdu == SafeGetattr(u, "pdu.state", "None")
        piu == SafeGetattr(u, "piu.state", "None")
        topsu == SafeGetattr(u, "piu.output_topsu_valid", "T")
        tolmu == SafeGetattr(u, "piu.output_tolmu_valid", "T")
        psu == SafeGetattr(u, "psu.state", "None")
        tcu == SafeGetattr(u, "tcu.output_timebuf_empty", "F")
        pfu == SafeGetattr(u, "pfu.state", "None")
        lmuv == SafeGetattr(u, "lmu.instinfo_valid", "T")
        lmud == SafeGetattr(u, "lmu.done", "F")
        dq == SafeGetattr(u, "qxu.dq_meas_mem", "None")
        aq == SafeGetattr(u, "qxu.aq_meas_mem", "None")
    IN << Cond("qif_all_fetched", Bool(qif[1]), qif[2]),
          SubBufferCond(u, "qid_pchdec_empty", "qid.to_pchdec_buf",
                        "qid.to_pchdec_buf.empty", "F", FALSE),
          SubBufferCond(u, "qid_lqmeas_empty", "qid.to_lqmeas_buf",
                        "qid.to_lqmeas_buf.empty", "F", FALSE),
          Cond("pdu_empty", pdu[1] = "empty", pdu[2]),
          Cond("piu_ready", piu[1] = "ready", piu[2]),
          Cond("piu_no_topsu_valid", ~Bool(topsu[1]), topsu[2]),
          Cond("piu_no_tolmu_valid", ~Bool(tolmu[1]), tolmu[2]),
          Cond("psu_ready", psu[1] = "ready", psu[2]),
          SubBufferCond(u, "psu_buf_empty", "psu.pchinfo_srmem",
                        "psu.pchinfo_srmem.output_notempty", "T", TRUE),
          Cond("tcu_empty", Bool(tcu[1]), tcu[2]),
          Cond("pfu_ready", pfu[1] = "ready", pfu[2]),
          Cond("lmu_no_instinfo_valid", ~Bool(lmuv[1]), lmuv[2]),
          Cond("lmu_done", Bool(lmud[1]), lmud[2]),
          Cond("qxu_meas_mem_empty", ~(Bool(dq[1]) \/ Bool(aq[1])), dq[2] /\ aq[2]) >>

\* The sub-buffers the oracle looks into, and the attribute it reads of each.
SubBuffers == {"qid.to_pchdec_buf", "qid.to_lqmeas_buf", "psu.pchinfo_srmem"}
SubAttr(buf) ==
    IF buf = "psu.pchinfo_srmem" THEN "psu.pchinfo_srmem.output_notempty"
    ELSE IF buf = "qid.to_pchdec_buf" THEN "qid.to_pchdec_buf.empty"
    ELSE "qid.to_lqmeas_buf.empty"

\* The attribute reads one evaluation of the oracle performs: the attribute of
\* a sub-buffer is read only when the buffer itself was read and is not None.
OracleReads(u) ==
    {"qif.all_fetched", "pdu.state", "piu.state", "piu.output_topsu_valid",
     "piu.output_tolmu_valid", "psu.state", "tcu.output_timebuf_empty",
     "pfu.state", "lmu.instinfo_valid", "lmu.done", "qxu.dq_meas_mem",
     "qxu.aq_meas_mem"}
    \cup SubBuffers
    \cup {SubAttr(b) : b \in {x \in SubBuffers : u[x] \notin Unreadable \cup {"None"}}}

\* An exit call made by one of the reads of an evaluation: _intercepted_exit
\* sets exit_info["called"] and raises; _safe_getattr catches the RuntimeError.
OracleExits(u) == \E a \in OracleReads(u) : u[a] = "exits"

\* The comprehension of line 458 is well-formed: the names of the unobservable
\* conditions are collected and one record is appended for them.
StableRecordsUnobservable(s, meta) ==
    LET c == Conditions(s.units)
        unobservable == SelectSeq(c, LAMBDA x : ~x.obs)
        all_true == \A k \in 1..Len(c) : c[k].val
        all_observable == \A k \in 1..Len(c) : c[k].obs
    IN [raised |-> FALSE,
        ret |-> all_true /\ all_observable,
        trace_meta |->
           IF unobservable # <<>>
             THEN [meta EXCEPT !.stability_check_failures =
                      Append(@, [cycle |-> s.cycle,
                                 unobservable_conditions |->
                                    [k \in 1..Len(unobservable) |-> unobservable[k].name]])]
             ELSE meta,
        exit_called |-> OracleExits(s.units)]
\* The completion flag of lmu is not among the conditions.
StableWithoutLmuDone(s, meta) ==
    LET c == SelectSeq(Conditions(s.units), LAMBDA x : x.name # "lmu_done")
        passes_filter == SelectSeq(c, LAMBDA x : ~x.obs)
        all_true == \A k \in 1..Len(c) : c[k].val
        all_observable == \A k \in 1..Len(c) : c[k].obs
    IN IF passes_filter # <<>>
         THEN [raised |-> TRUE, ret |-> FALSE, trace_meta |-> meta,
               exit_called |-> OracleExits(s.units)]
         ELSE [raised |-> FALSE, ret |-> all_true /\ all_observable,
               trace_meta |-> meta, exit_called |-> OracleExits(s.units)]

\* _check_system_stable(sim, trace_meta): whether the call raised, the value
\* returned (FALSE when it raised), trace_meta after the call, and whether a
\* read called the exit primitive. The comprehension of line 458,
\* {k: v for k, (val, obs) in conditions.items() if not obs}, evaluates the
\* name v, which is bound nowhere: the first condition that passes the filter
\* raises NameError, before the append of lines 459-463. With every condition
\* observable the comprehension yields the empty dict, nothing is appended and
\* the value is all_true and all_observable.
CheckSystemStable(s, meta) ==
    LET c == Conditions(s.units)
        passes_filter == SelectSeq(c, LAMBDA x : ~x.obs)
        all_true == \A k \in 1..Len(c) : c[k].val
        all_observable == \A k \in 1..Len(c) : c[k].obs
    IN IF passes_filter # <<>>
         THEN [raised |-> TRUE, ret |-> FALSE, trace_meta |-> meta,
               exit_called |-> OracleExits(s.units)]
         ELSE [raised |-> FALSE, ret |-> all_true /\ all_observable,
               trace_meta |-> meta, exit_called |-> OracleExits(s.units)]

\* ------------------------------------------------------------- simulator
\* A simulator at rest: every instruction fetched, every buffer there and
\* empty, every unit ready; qif has not set its completion flag, lmu has.
Quiet ==
    [a \in Attrs |->
        CASE a \in {"qif.all_fetched", "qid.to_pchdec_buf.empty",
                    "qid.to_lqmeas_buf.empty", "tcu.output_timebuf_empty",
                    "lmu.done"} -> "T"
          [] a \in {"qif.done", "piu.output_topsu_valid", "piu.output_tolmu_valid",
                    "psu.pchinfo_srmem.output_notempty", "lmu.instinfo_valid"} -> "F"
          [] a \in SubBuffers -> "buf"
          [] a = "pdu.state" -> "empty"
          [] a \in {"piu.state", "psu.state", "pfu.state", "lmu.state"} -> "ready"
          [] OTHER -> "[]"]

\* Other values an attribute takes: the opposite signal, and a way of being
\* unreadable (or None, for a sub-buffer).
AttrAlts(a) ==
    CASE a \in {"qif.all_fetched", "qid.to_pchdec_buf.empty",
                "tcu.output_timebuf_empty", "lmu.done"} -> {"F", "absent"}
      [] a = "qid.to_lqmeas_buf.empty" -> {"F", "raises"}
      [] a \in {"piu.output_topsu_valid",
                "psu.pchinfo_srmem.output_notempty"} -> {"T", "absent"}
      [] a \in {"piu.output_tolmu_valid", "lmu.instinfo_valid"} -> {"T", "exits"}
      [] a = "qif.done" -> {"T"}
      [] a \in {"qid.to_pchdec_buf", "psu.pchinfo_srmem"} -> {"None", "absent"}
      [] a = "qid.to_lqmeas_buf" -> {"None", "raises"}
      [] a \in {"pdu.state", "piu.state", "psu.state"} -> {"busy", "absent"}
      [] a = "pfu.state" -> {"busy", "raises"}
      [] a = "lmu.state" -> {"busy"}
      [] a = "qxu.dq_meas_mem" -> {"[m]", "absent"}
      [] OTHER -> {"[m]", "exits"}

\* Number of attributes that differ from the simulator at rest.
MaxPerturbed == 2

RECURSIVE Perturbed(_)
\* The unit states with at most n attributes away from rest.
Perturbed(n) ==
    IF n = 0
      THEN {Quiet}
      ELSE LET less == Perturbed(n - 1)
           IN less \cup UNION {{[ua[1] EXCEPT ![ua[2]] = v] : v \in AttrAlts(ua[2])} :
                                 ua \in less \X Attrs}

\* A simulator after setup whose subunits show the attributes u, at cycle c.
SimWithUnits(u, c) ==
    [cycle |-> c, sim_done |-> FALSE, take_input |-> FALSE, input_stall |-> FALSE,
     input_opcode |-> "None", ram |-> [i \in PchIdx |-> CellInit], units |-> u]

\* --------------------------------------------------------------- OracleSpec
\* A simulator state is drawn, then the oracle is evaluated on it once.
OracleInit ==
    /\ GateIdle /\ DiffIdle
    /\ pc = "oracle"
    /\ \E u \in Perturbed(MaxPerturbed), c \in 0..MaxCycles : sim = SimWithUnits(u, c)
    /\ patch_initial = <<>>
    /\ prev_snapshot = <<>>
    /\ events = <<>>
    /\ accepted_inst_count = 0
    /\ termination_reason = "normal"
    /\ timeout_seconds = "None"
    /\ trace_meta = [forced_terminations |-> <<>>, warnings |-> <<>>,
                     stability_check_failures |-> <<>>]
    /\ error = "none"
    /\ response = <<>>
    /\ is_stable = FALSE
    /\ exit_called = FALSE
    /\ artifacts = {}
    /\ keep_artifacts = FALSE
    /\ phase_calls = <<>>

\* The call ends: with a value, or with the NameError of line 458.
ApplyOracle ==
    /\ pc = "oracle"
    /\ LET chk == CheckSystemStable(sim, trace_meta)
       IN /\ is_stable' = chk.ret
          /\ error' = IF chk.raised THEN "NameError" ELSE error
          /\ trace_meta' = chk.trace_meta
          /\ exit_called' = (exit_called \/ chk.exit_called)
    /\ pc' = "evaluated"
    /\ UNCHANGED <<sim, patch_initial, prev_snapshot, events, accepted_inst_count,
                   termination_reason, timeout_seconds, response,
                   artifacts, keep_artifacts, phase_calls, gvars, dvars>>

OracleNext == ApplyOracle
OracleSpec == OracleInit /\ [][OracleNext]_vars

\* ======================================================================
\*  Claims about the Stability Oracle (OracleSpec)
\* ======================================================================
\* The attribute is there and its read returns a value.
Readable(a) == sim.units[a] \notin Unreadable
\* The sub-buffer is there, is not None, and its attribute is readable.
BufferSeen(b) == Readable(b) /\ sim.units[b] # "None" /\ Readable(SubAttr(b))

\* Every named condition could be observed.
AllObservable ==
    /\ \A a \in {"qif.all_fetched", "pdu.state", "piu.state",
                 "piu.output_topsu_valid", "piu.output_tolmu_valid", "psu.state",
                 "tcu.output_timebuf_empty", "pfu.state", "lmu.instinfo_valid",
                 "lmu.done", "qxu.dq_meas_mem", "qxu.aq_meas_mem"} : Readable(a)
    /\ \A b \in SubBuffers : BufferSeen(b)

\* Every named condition is true of the simulator.
AllTrue ==
    /\ sim.units["qif.all_fetched"] = "T"
    /\ sim.units["qid.to_pchdec_buf.empty"] = "T"
    /\ sim.units["qid.to_lqmeas_buf.empty"] = "T"
    /\ sim.units["pdu.state"] = "empty"
    /\ sim.units["piu.state"] = "ready"
    /\ sim.units["piu.output_topsu_valid"] = "F"
    /\ sim.units["piu.output_tolmu_valid"] = "F"
    /\ sim.units["psu.state"] = "ready"
    /\ sim.units["psu.pchinfo_srmem.output_notempty"] = "F"
    /\ sim.units["tcu.output_timebuf_empty"] = "T"
    /\ sim.units["pfu.state"] = "ready"
    /\ sim.units["lmu.instinfo_valid"] = "F"
    /\ sim.units["lmu.done"] = "T"
    /\ sim.units["qxu.dq_meas_mem"] = "[]"
    /\ sim.units["qxu.aq_meas_mem"] = "[]"

\* C13: every evaluation returns a verdict; is_stable returns true iff every
\* named condition was observable and true; with any condition unobservable
\* (attribute absent, read raising, a sub-buffer missing or None) the verdict
\* returned is false whatever the others are.
C13_OracleVerdict ==
    pc = "evaluated" =>
        /\ error = "none"
        /\ is_stable <=> (AllObservable /\ AllTrue)
        /\ ~AllObservable => ~is_stable

\* ======================================================================
\*  patch_trace_backend.py: the stepping loop with the done-fix wrappers
\*  (TermSpec: one invocation on a simulator that accepts no instruction;
\*  its subunits show one of UnitStates in each cycle)
\* ======================================================================
\* The unit states the stepped simulator shows: at rest, a busy stage, an
\* instruction not yet fetched, a sub-buffer that is None, a signal whose read
\* calls the exit primitive, and at rest but for lmu's completion flag.
UnitStates ==
    {Quiet,
     [Quiet EXCEPT !["pdu.state"] = "busy"],
     [Quiet EXCEPT !["qif.all_fetched"] = "F"],
     [Quiet EXCEPT !["qid.to_pchdec_buf"] = "None"],
     [Quiet EXCEPT !["lmu.instinfo_valid"] = "exits"],
     [Quiet EXCEPT !["lmu.done"] = "F"]}

\* The unit's flag is set as soon as its local signal holds: the oracle is
\* not asked.
DoneFixLocalOnly(s, meta, unit, local) ==
    [called |-> FALSE, ret |-> FALSE, exit_called |-> FALSE,
     trace_meta |->
        IF local[2] /\ local[1] /\ s.units[unit \o ".done"] # "T"
          THEN [meta EXCEPT !.forced_terminations =
                   Append(@, [unit |-> unit, cycle |-> s.cycle,
                              reason |-> "system_stable"])]
          ELSE meta,
     units |-> IF local[2] /\ local[1]
                 THEN [s.units EXCEPT ![unit \o ".done"] = "T"]
                 ELSE s.units]

\* An entry is appended at every true verdict, the flag set or not.
DoneFixAlwaysRecords(s, meta, unit, local) ==
    IF local[2] /\ local[1]
      THEN LET chk == CheckSystemStable(s, meta)
               done == s.units[unit \o ".done"]
           IN [called |-> TRUE, ret |-> chk.ret, exit_called |-> chk.exit_called,
               trace_meta |->
                  IF chk.ret
                    THEN [chk.trace_meta EXCEPT !.forced_terminations =
                             Append(@, [unit |-> unit, cycle |-> s.cycle,
                                        reason |-> "system_stable"])]
                    ELSE chk.trace_meta,
               units |-> IF chk.ret THEN [s.units EXCEPT ![unit \o ".done"] = "T"]
                                    ELSE s.units]
      ELSE [called |-> FALSE, ret |-> FALSE, exit_called |-> FALSE,
            trace_meta |-> meta, units |-> s.units]
\* The flag is written with the verdict of the oracle, true or false.
DoneFixWritesVerdict(s, meta, unit, local) ==
    IF local[2] /\ local[1]
      THEN LET chk == CheckSystemStable(s, meta)
               done == s.units[unit \o ".done"]
           IN [called |-> TRUE, ret |-> chk.ret, exit_called |-> chk.exit_called,
               trace_meta |->
                  IF chk.ret /\ ~Bool(done)
                    THEN [chk.trace_meta EXCEPT !.forced_terminations =
                             Append(@, [unit |-> unit, cycle |-> s.cycle,
                                        reason |-> "system_stable"])]
                    ELSE chk.trace_meta,
               units |-> IF chk.raised
                           THEN s.units
                           ELSE [s.units EXCEPT ![unit \o ".done"] =
                                    IF chk.ret THEN "T" ELSE "F"]]
      ELSE [called |-> FALSE, ret |-> FALSE, exit_called |-> FALSE,
            trace_meta |-> meta, units |-> s.units]

\* The try block of a done-fix wrapper (lines 628-641, 645-657). local is the
\* pair (local signal holds, observed). Only under a true verdict of the
\* oracle: an entry is appended if the flag is not set yet, then the flag is
\* set. A NameError of the oracle is caught by the block's except Exception
\* (lines 640-641, 656-657): nothing is appended and no flag is set. The
\* result: whether the oracle was called, whether it returned true, whether
\* one of its reads called the exit primitive, trace_meta and the unit
\* attributes after the block.
DoneFix(s, meta, unit, local) ==
    IF local[2] /\ local[1]
      THEN LET chk == CheckSystemStable(s, meta)
               done == s.units[unit \o ".done"]
           IN [called |-> TRUE, ret |-> chk.ret, exit_called |-> chk.exit_called,
               trace_meta |->
                  IF chk.ret /\ ~Bool(done)
                    THEN [chk.trace_meta EXCEPT !.forced_terminations =
                             Append(@, [unit |-> unit, cycle |-> s.cycle,
                                        reason |-> "system_stable"])]
                    ELSE chk.trace_meta,
               units |-> IF chk.ret THEN [s.units EXCEPT ![unit \o ".done"] = "T"]
                                    ELSE s.units]
      ELSE [called |-> FALSE, ret |-> FALSE, exit_called |-> FALSE,
            trace_meta |-> meta, units |-> s.units]

\* sim.run_cycle_transfer() reaching qif.transfer, which is
\* _qif_transfer_with_done_fix: the original transfer, then the try block on
\* the local signal "all_fetched observed and true".
QifTransferWithDoneFix ==
    /\ pc = "transfer"
    /\ LET r == SafeGetattr(sim.units, "qif.all_fetched", "F")
           fix == DoneFix(sim, trace_meta, "qif", <<Bool(r[1]), r[2]>>)
       IN /\ sim' = [sim EXCEPT !.units = fix.units]
          /\ trace_meta' = fix.trace_meta
          /\ is_stable' = IF fix.called THEN fix.ret ELSE is_stable
          /\ exit_called' = (\/ exit_called
                             \/ sim.units["qif.all_fetched"] = "exits"
                             \/ fix.exit_called)
    /\ phase_calls' = Append(phase_calls, "transfer")
    /\ pc' = "lmu_transfer"
    /\ UNCHANGED <<patch_initial, prev_snapshot, events, accepted_inst_count,
                   termination_reason, timeout_seconds, error, response,
                   artifacts, keep_artifacts, gvars, dvars>>

\* ... and lmu.transfer, which is _lmu_transfer_with_done_fix: the local
\* signal is "state observed and equal to ready".
LmuTransferWithDoneFix ==
    /\ pc = "lmu_transfer"
    /\ LET r == SafeGetattr(sim.units, "lmu.state", "None")
           fix == DoneFix(sim, trace_meta, "lmu", <<r[1] = "ready", r[2]>>)
       IN /\ sim' = [sim EXCEPT !.units = fix.units]
          /\ trace_meta' = fix.trace_meta
          /\ is_stable' = IF fix.called THEN fix.ret ELSE is_stable
          /\ exit_called' = (\/ exit_called
                             \/ sim.units["lmu.state"] = "exits"
                             \/ fix.exit_called)
    /\ pc' = "record"
    /\ UNCHANGED <<patch_initial, prev_snapshot, events, accepted_inst_count,
                   termination_reason, timeout_seconds, error, response,
                   artifacts, keep_artifacts, phase_calls, gvars, dvars>>

\* sim.run_cycle_update(): the subunits take their next state, a completion
\* flag that is set stays set, qif may set its own; the simulator is done when
\* both tail subunits are.
UnitsUpdate ==
    /\ pc = "update"
    /\ \E u \in UnitStates, qif_done \in {"F", "T"} :
          LET next ==
                [u EXCEPT !["qif.done"] =
                              IF sim.units["qif.done"] = "T" THEN "T" ELSE qif_done,
                          !["lmu.done"] =
                              IF sim.units["lmu.done"] = "T" THEN "T" ELSE @]
          IN sim' = [sim EXCEPT !.units = next,
                                !.sim_done = (next["qif.done"] = "T"
                                              /\ next["lmu.done"] = "T")]
    /\ phase_calls' = Append(phase_calls, "update")
    /\ pc' = "tick"
    /\ UNCHANGED <<patch_initial, prev_snapshot, events, accepted_inst_count,
                   termination_reason, timeout_seconds, trace_meta, error,
                   response, is_stable, exit_called, artifacts, keep_artifacts,
                   gvars, dvars>>

\* Lines 532-674 on such a simulator; the inputs of the invocation are drawn.
TermInit ==
    /\ GateIdle /\ DiffIdle
    /\ pc = "head"
    /\ \E u \in UnitStates : sim = SimWithUnits(u, 0)
    /\ patch_initial = TakeFullPatchSnapshot(sim.ram)
    /\ prev_snapshot = patch_initial
    /\ events = <<>>
    /\ accepted_inst_count = 0
    /\ termination_reason = "normal"
    /\ timeout_seconds \in {"None", "set"}
    /\ trace_meta = [forced_terminations |-> <<>>, warnings |-> <<>>,
                     stability_check_failures |-> <<>>]
    /\ error = "none"
    /\ response = <<>>
    /\ is_stable = FALSE
    /\ exit_called = FALSE
    /\ artifacts = JobFiles
    /\ keep_artifacts \in BOOLEAN
    /\ phase_calls = <<>>

TermNext ==
    \/ LoopHead
    \/ QifTransferWithDoneFix
    \/ LmuTransferWithDoneFix
    \/ RecordEvent
    \/ UnitsUpdate
    \/ RunCycleTick
    \/ MaxCyclesCheck
    \/ PhaseFails
    \/ BuildResponse

TermSpec == TermInit /\ [][TermNext]_vars

\* ======================================================================
\*  Claims about forced termination (TermSpec)
\* ======================================================================
\* The driver is inside the transfer phase, where the wrappers run.
InWrapper == pc \in {"transfer", "lmu_transfer"}
\* The step sets the completion flag of the unit.
SetsDone(unit) ==
    /\ sim.units[unit \o ".done"] # "T"
    /\ sim'.units[unit \o ".done"] = "T"
\* The forced_terminations entries with the given reason.
ForcedBy(reason) ==
    SelectSeq(trace_meta.forced_terminations, LAMBDA e : e.reason = reason)

\* C14: the driver sets qif.done or lmu.done only in a cycle in which the
\* oracle returned true for the simulator state of that cycle: every condition
\* observable and true. The local signal of the unit alone never sets the flag
\* and never adds a system_stable entry.
C14_ForcedOnlyIfStable ==
    [][/\ \A unit \in {"qif", "lmu"} :
             (InWrapper /\ SetsDone(unit))
                => (AllObservable /\ AllTrue /\ is_stable')
       /\ Len(ForcedBy("system_stable")') > Len(ForcedBy("system_stable"))
             => (InWrapper /\ AllObservable /\ AllTrue /\ is_stable')]_vars

\* At cycle 0 nothing was forced. At cycle 1 the oracle said true and
\* qif.done was set.
C14_Witness ==
    /\ pc = "lmu_transfer"
    /\ sim.units["qif.done"] = "T" /\ is_stable
    /\ trace_meta.forced_terminations =
          <<[unit |-> "qif", cycle |-> 1, reason |-> "system_stable"]>>

\* C15: on a simulator that does not complete unaided and is at rest (every
\* oracle condition observable and true) from some cycle c on, the trace
\* returns normally: a report whose forced_terminations holds exactly one
\* system_stable entry and whose termination_reason is normal.
C15_ForcedCompletion ==
    (/\ pc = "returned"
     /\ timeout_seconds = "None"
     /\ AllObservable /\ AllTrue
     /\ Len(ForcedBy("system_stable")) > 0)
        => /\ Len(ForcedBy("system_stable")) = 1
           /\ response[1].termination_reason = "normal"
           /\ Len(response[1].forced_terminations) = 1

\* C16: with a completion flag that never becomes true the loop runs a cycle
\* only while the counter is at most max_cycles, so at most max_cycles + 1
\* cycles; it is left as soon as the counter exceeds max_cycles, and the call
\* returns a report with termination_reason max_cycles, a max_cycles_exceeded
\* entry of that cycle as the last forced termination, and the events so far.
C16_BoundedStepping ==
    /\ sim.cycle <= MaxCycles + 1
    /\ pc \in {"transfer", "record", "update", "tick"} => sim.cycle <= MaxCycles
    /\ (pc \in {"head", "build", "returned"} /\ sim.cycle > MaxCycles)
          => pc # "head" /\ termination_reason = "max_cycles"
    /\ (pc = "returned" /\ ~sim.sim_done)
          => /\ sim.cycle = MaxCycles + 1
             /\ response[1].termination_reason = "max_cycles"
             /\ response[1].events = events
             /\ response[1].initial = patch_initial
             /\ LET ft == response[1].forced_terminations
                IN /\ Len(ft) > 0
                   /\ ft[Len(ft)] = [unit |-> "global", cycle |-> MaxCycles + 1,
                                     reason |-> "max_cycles_exceeded"]

\* No timeout is configured, the flag never became true, an event was
\* captured: the call returned at the ceiling.
C16_Witness ==
    /\ pc = "returned" /\ ~sim.sim_done
    /\ timeout_seconds = "None"
    /\ sim.cycle = MaxCycles + 1
    /\ Len(response[1].events) > 0

\* C17: when the wall-clock ceiling is found exceeded the call returns a
\* report, not an error: termination_reason timeout, the initial snapshot and
\* the events captured so far.
C17_TimeoutReport ==
    (termination_reason = "timeout" /\ pc \in {"returned", "raised"})
        => /\ pc = "returned" /\ error = "none"
           /\ response[1].termination_reason = "timeout"
           /\ response[1].initial = patch_initial
           /\ response[1].events = events

\* C18: with artifact retention off the files of the job are gone when the
\* call has ended, by a report or by an error.
C18_CleanupGuaranteed ==
    (pc \in {"returned", "raised"} /\ ~keep_artifacts) => artifacts = {}

\* C19: a call in which the simulator invoked the exit primitive, wherever it
\* did, ends with the error of the interceptor; it never returns a report.
C19_ExitNeverSwallowed ==
    exit_called => (pc # "build" /\ pc # "returned")

\* C20: when the simulator's own completion flag became true with no forcing
\* by the driver and no timeout, the call returns a report with
\* termination_reason normal and no forced termination.
C20_NormalCompletion ==
    (/\ pc = "returned"
     /\ sim.sim_done
     /\ ForcedBy("system_stable") = <<>>
     /\ ForcedBy("timeout") = <<>>)
        => /\ response[1].termination_reason = "normal"
           /\ response[1].forced_terminations = <<>>

\* ======================================================================
\*  patch_trace_backend.py: Value Normalizer (_to_json_safe) on Python
\*  values (NormSpec)
\* ======================================================================
\* Python values, by type. Text is a sequence of characters, a byte sequence a
\* sequence of bytes ("xff": a byte that is not valid UTF-8). PyEnum: an
\* object with a value attribute; PyNamed: an object with a name attribute
\* and no value attribute; PyOpaque: an object with neither.
PyNone == [py |-> "None"]
PyBool(b) == [py |-> "bool", b |-> b]
PyInt(n) == [py |-> "int", n |-> n]
PyStr(s) == [py |-> "str", s |-> s]
PyBytes(bs) == [py |-> "bytes", bs |-> bs]
PyEnum(v) == [py |-> "enum", value |-> v]
PyNamed(name) == [py |-> "named", name |-> name]
PyOpaque == [py |-> "opaque"]
PyList(items) == [py |-> "list", items |-> items]
PyTuple(items) == [py |-> "tuple", items |-> items]
\* A dict: its (key, value) pairs in insertion order.
PyDict(pairs) == [py |-> "dict", pairs |-> pairs]

\* What a call ends with.
Returns(v) == [ok |-> TRUE, val |-> v]
Raises(e) == [ok |-> FALSE, exc |-> e]

\* value.decode("utf-8", errors="replace"): an undecodable byte becomes the
\* replacement character.
Decode(bs) == [i \in 1..Len(bs) |-> IF bs[i] = "xff" THEN "ufffd" ELSE bs[i]]

\* str(value) of an object without a name: its printable representation.
Repr == <<"<", "o", ">">>

RECURSIVE PyHashable(_)
\* hash(v) succeeds: not a list, not a dict, not a tuple holding one.
PyHashable(v) ==
    CASE v.py \in {"list", "dict"} -> FALSE
      [] v.py = "tuple" -> \A i \in 1..Len(v.items) : PyHashable(v.items[i])
      [] OTHER -> TRUE

\* k1 == k2 of Python for dict keys: True == 1 and False == 0.
PyNumber(v) ==
    IF v.py = "bool" THEN (IF v.b THEN 1 ELSE 0) ELSE v.n
PyEq(k1, k2) ==
    IF k1.py \in {"bool", "int"} /\ k2.py \in {"bool", "int"}
      THEN PyNumber(k1) = PyNumber(k2)
      ELSE k1 = k2

\* d[k] = v on the pairs of a dict: an equal key keeps its place and its key
\* object, its value is replaced.
DictStore(pairs, k, v) ==
    IF \E i \in 1..Len(pairs) : PyEq(pairs[i][1], k)
      THEN [i \in 1..Len(pairs) |->
               IF PyEq(pairs[i][1], k) THEN <<pairs[i][1], v>> ELSE pairs[i]]
      ELSE Append(pairs, <<k, v>>)

RECURSIVE ToJsonSafeValue(_), DictComprehension(_, _, _),
          ListComprehension(_, _, _)

\* {_to_json_safe(k): _to_json_safe(v) for k, v in value.items()} from pair i
\* on, acc the dict built so far: the key is normalized, then the value, then
\* the pair is stored, which hashes the new key.
DictComprehension(pairs, i, acc) ==
    IF i > Len(pairs)
      THEN Returns(PyDict(acc))
      ELSE LET k == ToJsonSafeValue(pairs[i][1])
           IN IF ~k.ok
                THEN k
                ELSE LET v == ToJsonSafeValue(pairs[i][2])
                     IN IF ~v.ok
                          THEN v
                          ELSE IF ~PyHashable(k.val)
                                 THEN Raises("TypeError")
                                 ELSE DictComprehension(pairs, i + 1,
                                                        DictStore(acc, k.val, v.val))

\* [_to_json_safe(v) for v in value] from item i on.
ListComprehension(items, i, acc) ==
    IF i > Len(items)
      THEN Returns(PyList(acc))
      ELSE LET v == ToJsonSafeValue(items[i])
           IN IF ~v.ok THEN v
                       ELSE ListComprehension(items, i + 1, Append(acc, v.val))

\* _to_json_safe(value), lines 127-160, in the order of its tests. The
\* numeric-library branch (lines 137-145) applies to none of these values.
ToJsonSafeValue(value) ==
    CASE value.py = "None" -> Returns(PyNone)
      [] value.py \in {"bool", "int", "str"} -> Returns(value)
      [] value.py = "bytes" -> Returns(PyStr(Decode(value.bs)))
      [] value.py = "enum" -> ToJsonSafeValue(value.value)
      [] value.py = "named" -> Returns(PyStr(value.name))
      [] value.py = "dict" -> DictComprehension(value.pairs, 1, <<>>)
      [] value.py \in {"list", "tuple"} -> ListComprehension(value.items, 1, <<>>)
      [] OTHER -> Returns(PyStr(Repr))

\* ------------------------------------------------------------- NormSpec
\* Values without a container.
PyLeaves ==
    {PyNone, PyBool(TRUE), PyInt(0), PyInt(1), PyStr(<<"a">>),
     PyBytes(<<"a">>), PyBytes(<<"a", "xff">>), PyNamed(<<"R">>), PyOpaque}

\* Depth of nesting of the values drawn.
MaxNesting == 2

RECURSIVE PyValues(_)
\* The values nested at most n deep: sequences and tuples of at most one
\* item, enumeration-like objects, mappings of at most one pair, and the
\* mappings of two leaf keys.
PyValues(n) ==
    IF n = 0
      THEN PyLeaves
      ELSE LET less == PyValues(n - 1)
               keys == {k \in less : PyHashable(k)}
           IN less
              \cup {PyList(<<>>), PyTuple(<<>>), PyDict(<<>>)}
              \cup {PyList(<<x>>) : x \in less}
              \cup {PyTuple(<<x>>) : x \in less}
              \cup {PyEnum(x) : x \in less}
              \cup {PyDict(<< <<k, v>> >>) : k \in keys, v \in {PyNone, PyBytes(<<"a">>)}}
              \cup {PyDict(<< <<k1, PyInt(0)>>, <<k2, PyInt(1)>> >>) :
                       k1 \in {PyStr(<<"a">>), PyInt(1)},
                       k2 \in {PyBytes(<<"a">>), PyEnum(PyBool(TRUE)), PyNone}}

\* A value is drawn, then the function is applied to it.
NormInit ==
    /\ GateIdle /\ TraceIdle /\ SnapIdle /\ AliasIdle
    /\ dpc = "idle" /\ dprev = <<>> /\ dcur = <<>> /\ deltas = <<>>
    /\ npc = "drawn"
    /\ nvalue \in PyValues(MaxNesting)
    /\ nresult = <<>>

ApplyNormalize ==
    /\ npc = "drawn"
    /\ nresult' = ToJsonSafeValue(nvalue)
    /\ npc' = "applied"
    /\ UNCHANGED <<nvalue, dpc, dprev, dcur, deltas, svars, avars, gvars, tvars>>

NormNext == ApplyNormalize
NormSpec == NormInit /\ [][NormNext]_vars

\* ======================================================================
\*  Claims about the Value Normalizer (NormSpec)
\* ======================================================================
RECURSIVE IsJsonSafe(_)
\* null, a boolean, a number, text, an array of such values, or an object
\* whose keys are primitives and whose values are such values.
IsJsonSafe(v) ==
    CASE v.py \in {"None", "bool", "int", "str"} -> TRUE
      [] v.py = "list" -> \A i \in 1..Len(v.items) : IsJsonSafe(v.items[i])
      [] v.py = "dict" ->
            \A i \in 1..Len(v.pairs) :
                /\ v.pairs[i][1].py \in {"None", "bool", "int", "str"}
                /\ IsJsonSafe(v.pairs[i][2])
      [] OTHER -> FALSE

\* C21: on every value built from null, booleans, integers, text, byte
\* sequences, enumeration-like objects, sequences, tuples and mappings (with
\* tuple keys too) the normalizer returns a JSON-safe value and never raises.
C21_NormalizerTotal ==
    npc = "applied" => (nresult.ok /\ IsJsonSafe(nresult.val))

\* ======================================================================
\*  Claims about the stepping loop (TraceSpec)
\* ======================================================================
\* C24: the accepted-instruction counter starts at 0, grows by exactly one in
\* the recorder step of every cycle whose signals show acceptance without
\* stall, whatever the opcode, and changes in no other step; an appended event
\* carries the value the counter had before its acceptance, so the positions
\* are strictly increasing along the events, never below the event's seq,
\* and below the counter.
C24_InstructionCounter ==
    /\ accepted_inst_count = 0
    /\ [][/\ accepted_inst_count' =
                IF pc = "record" /\ AcceptedNow THEN accepted_inst_count + 1
                                                ELSE accepted_inst_count
          /\ Len(events') > Len(events)
                => events'[Len(events')].qisa_idx = accepted_inst_count]_vars
    /\ [](\A i \in 1..Len(events) :
             /\ events[i].qisa_idx >= events[i].seq
             /\ events[i].qisa_idx < accepted_inst_count
             /\ i < Len(events) => events[i].qisa_idx < events[i + 1].qisa_idx)
    /\ [](accepted_inst_count
             <= Len(SelectSeq(phase_calls, LAMBDA c : c = "record")))

\* Three instructions were accepted, one per cycle; only the third produced
\* an event, the recorder has just appended it: position 2, seq 0.
C24_Witness ==
    /\ pc = "update" /\ sim.cycle = 2
    /\ accepted_inst_count = 3
    /\ Len(events) = 1
    /\ events[1].qisa_idx = 2 /\ events[1].seq = 0 /\ events[1].cycle = 2

\* The calls of one iteration, in the order of the loop body.
PhaseCycle == <<"transfer", "record", "update", "tick">>
\* The calls of a log are those of whole iterations, followed by the first
\* calls of one more.
InPhaseOrder(log) ==
    \A i \in 1..Len(log) : log[i] = PhaseCycle[((i - 1) % 4) + 1]
\* The calls to the simulator alone.
SimPhases(log) == SelectSeq(log, LAMBDA c : c # "record")
\* Number of calls of a phase.
Calls(log, phase) == Len(SelectSeq(log, LAMBDA c : c = phase))

\* C25: the calls of the loop are (transfer, recorder, update, tick) repeated,
\* each once per iteration and in this order, the simulator alone seeing
\* (transfer, update, tick) repeated; the recorder runs between the transfer
\* and the update of its cycle; between two iterations every call was made
\* once per executed cycle; a call that raises is the last one.
C25_PhaseOrdering ==
    /\ InPhaseOrder(phase_calls)
    /\ \A i \in 1..Len(SimPhases(phase_calls)) :
          SimPhases(phase_calls)[i] = <<"transfer", "update", "tick">>[((i - 1) % 3) + 1]
    /\ pc = "transfer" => Len(phase_calls) = 4 * sim.cycle
    /\ pc = "record" => Len(phase_calls) = 4 * sim.cycle + 1
    /\ pc = "update" => Len(phase_calls) = 4 * sim.cycle + 2
    /\ pc = "tick" => Len(phase_calls) = 4 * sim.cycle + 3
    /\ pc \in {"head", "max_check", "build", "returned"}
          => /\ Len(phase_calls) = 4 * sim.cycle
             /\ \A ph \in {"transfer", "record", "update", "tick"} :
                   Calls(phase_calls, ph) = sim.cycle
    /\ (pc = "raised" /\ error # "TimeoutError")
          => phase_calls[Len(phase_calls)] \in {"transfer", "update", "tick"}

\* Two whole iterations, ended by the simulator's completion.
C25_Witness ==
    /\ pc = "returned" /\ termination_reason = "normal"
    /\ phase_calls = PhaseCycle \o PhaseCycle

\* ======================================================================
\*  Claims about input errors (Spec)
\* ======================================================================
\* The request's circuit text is an input error.
BadInput(r) == req_qasm[r] \in {"empty", "bad"}

\* C23: a request whose circuit text is empty, malformed or over a limit ends
\* with 400, no simulator constructed and no cycle run; it leaves the gate
\* free and the in-progress flag false, and an empty request never holds the
\* gate.
C23_InputRejected ==
    /\ \A r \in Reqs :
          (rpc[r] = "done" /\ BadInput(r))
             => /\ outcome[r] = 400
                /\ ~sim_built[r] /\ run_cycles[r] = 0
                /\ releases[r] = (IF acquired[r] THEN 1 ELSE 0)
                /\ req_qasm[r] = "empty" => ~acquired[r]
    /\ (\A r \in Reqs : rpc[r] \notin HoldingPcs)
          => (~trace_lock /\ ~trace_in_progress)

\* C23, amended: the outcome is 400 for an empty request, and for a malformed
\* or over-limit one that took the gate and got as far as the parser; such a
\* request is answered 429 when the gate is held, and 500 when the lazy
\* imports before the parser fail. In every case no simulator is constructed
\* for it and no cycle run, at any point of the request, and the gate and the
\* in-progress flag are left as in the claim.
C23_InputRejectedPastGate ==
    /\ \A r \in Reqs :
          BadInput(r) => (~sim_built[r] /\ run_cycles[r] = 0)
    /\ \A r \in Reqs :
          (rpc[r] = "done" /\ BadInput(r))
             => /\ releases[r] = (IF acquired[r] THEN 1 ELSE 0)
                /\ req_qasm[r] = "empty" => (~acquired[r] /\ outcome[r] = 400)
                /\ req_qasm[r] = "bad" =>
                      outcome[r] = (IF ~acquired[r] THEN 429
                                    ELSE IF exc[r].type = "Exception" THEN 500
                                    ELSE 400)
    /\ (\A r \in Reqs : rpc[r] \notin HoldingPcs)
          => (~trace_lock /\ ~trace_in_progress)

\* A malformed request took the gate and was answered 400; the gate was free
\* afterwards: the other request is now stepping its simulator.
C23_Witness ==
    \E r, s \in Reqs :
        /\ r # s
        /\ rpc[r] = "done" /\ req_qasm[r] = "bad"
        /\ acquired[r] /\ releases[r] = 1 /\ outcome[r] = 400
        /\ rpc[s] = "stepping"

\* ======================================================================
\*  patch_trace_backend.py: the stepping loop on a simulator that is stuck
\*  (LongSpec: one invocation with a ceiling of LongCycles cycles; the
\*  subunits show the same state in every cycle)
\* ======================================================================
\* max_cycles of the long invocation: the timeout check runs again at cycle
\* TimeoutCheckInterval.
LongCycles == 100

\* The states a stuck simulator stays in: a sub-buffer that is None; a
\* measurement memory that is absent and a sub-buffer whose read raises; an
\* absent memory with instructions left to fetch; a busy stage; at rest.
SteadyStates ==
    {[Quiet EXCEPT !["qid.to_pchdec_buf"] = "None"],
     [Quiet EXCEPT !["qxu.dq_meas_mem"] = "absent",
                   !["qid.to_lqmeas_buf.empty"] = "raises"],
     [Quiet EXCEPT !["qxu.dq_meas_mem"] = "absent",
                   !["qif.all_fetched"] = "F"],
     [Quiet EXCEPT !["pdu.state"] = "busy"],
     Quiet}

\* sim.run_cycle_update() of the stuck simulator: the subunits stay as they
\* are; the simulator is done when both tail subunits are.
SteadyUpdate ==
    /\ pc = "update"
    /\ sim' = [sim EXCEPT !.sim_done = (sim.units["qif.done"] = "T"
                                        /\ sim.units["lmu.done"] = "T")]
    /\ phase_calls' = Append(phase_calls, "update")
    /\ pc' = "tick"
    /\ UNCHANGED <<patch_initial, prev_snapshot, events, accepted_inst_count,
                   termination_reason, timeout_seconds, trace_meta, error,
                   response, is_stable, exit_called, artifacts, keep_artifacts,
                   gvars, dvars>>

\* if sim.cycle > max_cycles: ... break, with max_cycles = LongCycles.
LongCyclesCheck ==
    /\ pc = "max_check"
    /\ IF sim.cycle > LongCycles
         THEN /\ termination_reason' = "max_cycles"
              /\ trace_meta' =
                   [trace_meta EXCEPT
                      !.warnings = Append(@, "exceeded_max_cycles"),
                      !.forced_terminations =
                         Append(@, [unit |-> "global", cycle |-> sim.cycle,
                                    reason |-> "max_cycles_exceeded"])]
              /\ pc' = "build"
         ELSE /\ pc' = "head"
              /\ UNCHANGED <<termination_reason, trace_meta>>
    /\ UNCHANGED <<sim, patch_initial, prev_snapshot, events, accepted_inst_count,
                   timeout_seconds, error, response, xvars, gvars, dvars>>

\* Lines 532-674 on such a simulator.
LongInit ==
    /\ GateIdle /\ DiffIdle
    /\ pc = "head"
    /\ \E u \in SteadyStates : sim = SimWithUnits(u, 0)
    /\ patch_initial = TakeFullPatchSnapshot(sim.ram)
    /\ prev_snapshot = patch_initial
    /\ events = <<>>
    /\ accepted_inst_count = 0
    /\ termination_reason = "normal"
    /\ timeout_seconds \in {"None", "set"}
    /\ trace_meta = [forced_terminations |-> <<>>, warnings |-> <<>>,
                     stability_check_failures |-> <<>>]
    /\ error = "none"
    /\ response = <<>>
    /\ is_stable = FALSE
    /\ exit_called = FALSE
    /\ artifacts = JobFiles
    /\ keep_artifacts = FALSE
    /\ phase_calls = <<>>

LongNext ==
    \/ LoopHead
    \/ QifTransferWithDoneFix
    \/ LmuTransferWithDoneFix
    \/ RecordEvent
    \/ SteadyUpdate
    \/ RunCycleTick
    \/ LongCyclesCheck
    \/ PhaseFails
    \/ BuildResponse

LongSpec == LongInit /\ [][LongNext]_vars

\* ======================================================================
\*  Claims about a long trace (LongSpec)
\* ======================================================================
\* The wrapper about to run asks the oracle: its unit's local signal holds.
OracleAsked ==
    \/ pc = "transfer" /\ sim.units["qif.all_fetched"] = "T"
    \/ pc = "lmu_transfer" /\ sim.units["lmu.state"] = "ready"

\* C22: the records of unobservable conditions are produced one per oracle
\* evaluation that found a condition unobservable, each with the cycle of
\* that evaluation, in order; the stability_check_failures list of a returned
\* report holds the first 10 of them, all of them when there are fewer, and
\* never more than 10.
C22_FailuresCapped ==
    /\ [][IF OracleAsked /\ ~AllObservable
            THEN /\ Len(trace_meta'.stability_check_failures)
                      = Len(trace_meta.stability_check_failures) + 1
                 /\ SubSeq(trace_meta'.stability_check_failures, 1,
                           Len(trace_meta.stability_check_failures))
                      = trace_meta.stability_check_failures
                 /\ trace_meta'.stability_check_failures[
                        Len(trace_meta'.stability_check_failures)].cycle = sim.cycle
            ELSE trace_meta'.stability_check_failures
                    = trace_meta.stability_check_failures]_vars
    /\ [](pc = "returned" =>
            LET rep == response[1].stability_check_failures
                acc == trace_meta.stability_check_failures
            IN /\ Len(rep) <= 10
               /\ Len(rep) = Min(10, Len(acc))
               /\ \A i \in 1..Len(rep) : rep[i] = acc[i])

\* The step leaves the stepping loop.
LeavesLoop ==
    /\ pc \notin {"build", "returned", "raised"}
    /\ pc' \in {"build", "raised"}
\* The simulator has executed a whole number of cycles.
WholeCycles ==
    /\ Calls(phase_calls, "transfer") = sim.cycle
    /\ Calls(phase_calls, "update") = sim.cycle
    /\ Calls(phase_calls, "tick") = sim.cycle

\* C26: the loop is left by the simulator's completion seen at the head, by
\* an error raised by the simulator inside a phase, or by the driver itself,
\* and then only at the timeout check at the head of an iteration (a timeout
\* is configured, the cycle counter is a multiple of 100) or at the ceiling
\* check after the tick; in both the simulator has run whole cycles. The
\* termination reason changes in no other step.
C26_CancellationPoints ==
    /\ [][LeavesLoop =>
            \/ /\ pc = "head" /\ sim.sim_done /\ pc' = "build"
               /\ termination_reason' = termination_reason
            \/ /\ pc \in {"transfer", "update", "tick"} /\ pc' = "raised"
               /\ error' \in {"RuntimeError", "Exception"}
               /\ termination_reason' = termination_reason
            \/ /\ pc = "head" /\ ~sim.sim_done
               /\ timeout_seconds # "None"
               /\ sim.cycle % 100 = 0
               /\ termination_reason' = "timeout"
               /\ WholeCycles
            \/ /\ pc = "max_check" /\ sim.cycle > LongCycles
               /\ termination_reason' = "max_cycles"
               /\ WholeCycles]_vars
    /\ [][termination_reason' # termination_reason => LeavesLoop]_vars
    /\ [](termination_reason # "normal" => WholeCycles)

\* The timeout check of cycle 100, the second one of the trace, ended it.
C26_Witness ==
    /\ termination_reason = "timeout" /\ pc = "raised"
    /\ sim.cycle = 100
    /\ Calls(phase_calls, "tick") = 100

\* C27: the step that finds the timeout exceeded is taken at the head of an
\* iteration with a timeout configured; it appends one forced-termination
\* entry (unit global, reason timeout, the current cycle) and one warning and
\* raises TimeoutError; no step follows it, so no further phase runs. With no
\* timeout configured the step is never taken.
C27_TimeoutStep ==
    /\ [][(termination_reason' = "timeout" /\ termination_reason # "timeout") =>
            /\ pc = "head" /\ timeout_seconds # "None"
            /\ trace_meta'.forced_terminations =
                  Append(trace_meta.forced_terminations,
                         [unit |-> "global", cycle |-> sim.cycle,
                          reason |-> "timeout"])
            /\ Len(trace_meta'.warnings) = Len(trace_meta.warnings) + 1
            /\ trace_meta'.stability_check_failures
                  = trace_meta.stability_check_failures
            /\ pc' = "raised" /\ error' = "TimeoutError"
            /\ phase_calls' = phase_calls /\ sim' = sim]_vars
    /\ [][termination_reason # "timeout"]_vars
    /\ [](Len(ForcedBy("timeout")) <= 1)
    /\ [](error = "TimeoutError" <=> termination_reason = "timeout")
    /\ [](timeout_seconds = "None" =>
            (termination_reason # "timeout" /\ ForcedBy("timeout") = <<>>))

\* The trace went past the check of cycle 0 and timed out at cycle 100.
C27_Witness ==
    /\ pc = "raised" /\ error = "TimeoutError"
    /\ trace_meta.forced_terminations =
          <<[unit |-> "global", cycle |-> 100, reason |-> "timeout"]>>
    /\ Len(trace_meta.warnings) = 1
    /\ Calls(phase_calls, "tick") = 100

StableEntries(unit) ==
    SelectSeq(trace_meta.forced_terminations,
              LAMBDA e : e.reason = "system_stable" /\ e.unit = unit)

\* C28 (TermSpec): a wrapper step that turns a unit's completion flag from
\* false to true appends exactly one forced_terminations entry, naming the
\* unit, the current cycle and the reason system_stable; a wrapper step that
\* turns no flag appends nothing, also when its oracle verdict was true and
\* the flag was set already; the list holds at most one system_stable entry
\* per unit, and no step removes or alters an entry.
C28_InterventionRecorded ==
    /\ [][\A unit \in {"qif", "lmu"} :
             (InWrapper /\ SetsDone(unit))
                => trace_meta'.forced_terminations =
                      Append(trace_meta.forced_terminations,
                             [unit |-> unit, cycle |-> sim.cycle,
                              reason |-> "system_stable"])]_vars
    /\ [][(InWrapper /\ ~(\E unit \in {"qif", "lmu"} : SetsDone(unit)))
             => trace_meta'.forced_terminations
                   = trace_meta.forced_terminations]_vars
    /\ [][/\ Len(trace_meta'.forced_terminations)
                >= Len(trace_meta.forced_terminations)
          /\ SubSeq(trace_meta'.forced_terminations, 1,
                    Len(trace_meta.forced_terminations))
                = trace_meta.forced_terminations]_vars
    /\ [](\A unit \in {"qif", "lmu"} : Len(StableEntries(unit)) <= 1)

\* In one cycle qif's flag was forced and recorded, then lmu's wrapper got a
\* true verdict with lmu's flag already set: no second entry.
C28_Witness ==
    /\ pc = "record" /\ is_stable
    /\ sim.units["lmu.state"] = "ready" /\ sim.units["lmu.done"] = "T"
    /\ sim.units["qif.done"] = "T"
    /\ trace_meta.forced_terminations =
          <<[unit |-> "qif", cycle |-> sim.cycle, reason |-> "system_stable"]>>

\* The conditions of the oracle, in the order it evaluates them, each with
\* whether it can be observed on the simulator.
CondObservable ==
    << <<"qif_all_fetched", Readable("qif.all_fetched")>>,
       <<"qid_pchdec_empty", BufferSeen("qid.to_pchdec_buf")>>,
       <<"qid_lqmeas_empty", BufferSeen("qid.to_lqmeas_buf")>>,
       <<"pdu_empty", Readable("pdu.state")>>,
       <<"piu_ready", Readable("piu.state")>>,
       <<"piu_no_topsu_valid", Readable("piu.output_topsu_valid")>>,
       <<"piu_no_tolmu_valid", Readable("piu.output_tolmu_valid")>>,
       <<"psu_ready", Readable("psu.state")>>,
       <<"psu_buf_empty", BufferSeen("psu.pchinfo_srmem")>>,
       <<"tcu_empty", Readable("tcu.output_timebuf_empty")>>,
       <<"pfu_ready", Readable("pfu.state")>>,
       <<"lmu_no_instinfo_valid", Readable("lmu.instinfo_valid")>>,
       <<"lmu_done", Readable("lmu.done")>>,
       <<"qxu_meas_mem_empty",
         Readable("qxu.dq_meas_mem") /\ Readable("qxu.aq_meas_mem")>> >>
\* The names of the conditions that cannot be observed.
UnobservedNames ==
    LET un == SelectSeq(CondObservable, LAMBDA p : ~p[2])
    IN [k \in 1..Len(un) |-> un[k][1]]

\* C29 (OracleSpec): an evaluation of the oracle appends one record if and
\* only if some condition was unobservable; the record holds the names of
\* exactly the unobservable conditions and the simulator's cycle; with every
\* condition observable nothing is appended, whatever their values.
C29_UnobservableRecorded ==
    pc = "evaluated" =>
        /\ (trace_meta.stability_check_failures # <<>>) <=> ~AllObservable
        /\ (UnobservedNames = <<>>) <=> AllObservable
        /\ ~AllObservable =>
              trace_meta.stability_check_failures =
                 <<[cycle |-> sim.cycle,
                    unobservable_conditions |-> UnobservedNames]>>

\* ======================================================================
\*  Claims about the gate's refusal and the in-progress flag (Spec)
\* ======================================================================
\* The request takes the step.
Moves(r) == rpc'[r] # rpc[r]
\* Another request is between its acquire and its release.
OtherHolds(r) == \E s \in Reqs \ {r} : rpc[s] \in HoldingPcs /\ acquired[s]

\* C33: a request gets 429 only by its acquire attempt made while another
\* request holds the gate; no step of a request that is being or has been
\* refused changes the gate, the in-progress flag or the start-time record,
\* and such a request never releases the gate.
C33_ConflictSideEffectFree ==
    /\ [][\A r \in Reqs :
            (outcome'[r] = 429 /\ outcome[r] # 429)
               => /\ rpc[r] = "acquire" /\ trace_lock /\ OtherHolds(r)
                  /\ rpc'[r] = "done"]_vars
    /\ [][\A r \in Reqs :
            (Moves(r) /\ (outcome[r] = 429 \/ outcome'[r] = 429))
               => /\ trace_lock' = trace_lock
                  /\ trace_in_progress' = trace_in_progress
                  /\ trace_start_time' = trace_start_time
                  /\ releases' = releases]_vars
    /\ [](\A r \in Reqs : outcome[r] = 429 => (~acquired[r] /\ releases[r] = 0))

\* A request was refused while the holder is stepping with its flag and its
\* start time set: they are still set.
C33_Witness ==
    \E r, s \in Reqs :
        /\ r # s
        /\ rpc[s] = "stepping" /\ acquired[s]
        /\ rpc[r] = "done" /\ outcome[r] = 429
        /\ trace_lock /\ trace_in_progress /\ trace_start_time = "set"

\* The step turns the in-progress flag from false to true.
FlagRaised == ~trace_in_progress /\ trace_in_progress'
\* The flag implies a holder of the gate, and is false without one.
FlagFollowsGate ==
    /\ trace_in_progress =>
          (trace_lock /\ \E r \in Reqs : rpc[r] \in HoldingPcs /\ acquired[r])
    /\ (\A r \in Reqs : rpc[r] \notin HoldingPcs) => ~trace_in_progress

\* C38: the in-progress flag is true only while some request holds the gate
\* and false whenever none does; no request that is refused by the gate and
\* no request with an input error (an empty, malformed or over-limit circuit)
\* ever turns it to true.
C38_FlagConsistent ==
    /\ []FlagFollowsGate
    /\ [][\A r \in Reqs :
            (Moves(r) /\ FlagRaised)
               => (req_qasm[r] = "ok" /\ outcome'[r] # 429)]_vars

\* C38, amended: the flag is true only while some request holds the gate and
\* false whenever none does; it is turned to true only by a request that has
\* just acquired the gate, never by one the gate refused nor by one with an
\* empty circuit; a malformed or over-limit circuit is found after the flag
\* was set, and the flag is cleared before that request releases the gate.
C38_FlagConsistentWhileHeld ==
    /\ []FlagFollowsGate
    /\ [][\A r \in Reqs :
            (Moves(r) /\ FlagRaised)
               => /\ rpc[r] = "set_flag" /\ acquired[r] /\ trace_lock
                  /\ req_qasm[r] # "empty" /\ outcome'[r] # 429]_vars
    /\ [][\A r \in Reqs :
            (Moves(r) /\ trace_lock /\ ~trace_lock') => ~trace_in_progress]_vars

\* A malformed request holds the gate with the flag set, another request was
\* refused meanwhile.
C38_Witness ==
    \E r, s \in Reqs :
        /\ r # s
        /\ rpc[r] = "handler" /\ req_qasm[r] = "bad" /\ exc[r].type = "HTTP400"
        /\ trace_in_progress
        /\ rpc[s] = "done" /\ outcome[s] = 429

\* Positions of a request inside `with _exit_intercept_lock:`.
InterceptPcs == {"icpt_install", "stepping", "icpt_restore", "icpt_unlock"}
\* Some step of the request can be taken.
CanMove(r) ==
    \/ ENABLED CheckEmpty(r) \/ ENABLED Acquire(r)
    \/ ENABLED SetInProgress(r) \/ ENABLED SetStartTime(r)
    \/ ENABLED Validate(r) \/ ENABLED Compile(r) \/ ENABLED SimSetup(r)
    \/ ENABLED InterceptCapture(r) \/ ENABLED InterceptLock(r)
    \/ ENABLED InterceptInstall(r) \/ ENABLED LoopDone(r)
    \/ ENABLED LoopCycle(r) \/ ENABLED InterceptRestore(r)
    \/ ENABLED InterceptUnlock(r) \/ ENABLED Respond(r)
    \/ ENABLED ExceptHandler(r) \/ ENABLED FinallyFlag(r)
    \/ ENABLED FinallyStart(r) \/ ENABLED FinallyRelease(r)

\* C39: the interceptor lock is taken only by the request that holds the gate
\* and is free again before that request releases the gate; a request that
\* reaches the interceptor lock finds it free; every request that has started
\* and not ended can take a step in every reachable state, so none waits.
C39_NoLockDeadlock ==
    /\ [](\A r \in Reqs :
            /\ exit_intercept_lock = r
                  <=> rpc[r] \in InterceptPcs
            /\ exit_intercept_lock = r
                  => (trace_lock /\ acquired[r] /\ releases[r] = 0)
            /\ rpc[r] = "icpt_lock" => exit_intercept_lock = 0
            /\ rpc[r] \in {"fin_flag", "fin_start", "fin_release"}
                  => exit_intercept_lock # r
            /\ rpc[r] \notin {"idle", "done"} => CanMove(r))
    /\ [][\A r \in Reqs :
            /\ (exit_intercept_lock # r /\ exit_intercept_lock' = r)
                  => (trace_lock /\ acquired[r])
            /\ (Moves(r) /\ trace_lock /\ ~trace_lock')
                  => exit_intercept_lock = 0]_vars

\* A request is about to release the interceptor lock, holding the gate; the
\* other one is about to attempt the gate.
C39_Witness ==
    \E r, s \in Reqs :
        /\ r # s
        /\ rpc[r] = "icpt_unlock" /\ exit_intercept_lock = r /\ trace_lock
        /\ rpc[s] = "acquire"

\* ======================================================================
\*  patch_trace_backend.py: trace_patches_from_qasm called directly by
\*  concurrent threads, without the gate of api_server.py (DirectSpec)
\* ======================================================================
\* A thread calls trace_patches_from_qasm(...): steps 1-3 come first.
DirectCall(r) ==
    /\ ~proc_exited
    /\ UNCHANGED <<tvars, dvars>>
    /\ rpc[r] = "idle"
    /\ rpc' = [rpc EXCEPT ![r] = "compile"]
    /\ LocalsReset(r)
    /\ UNCHANGED <<req_qasm, trace_lock, trace_in_progress, trace_start_time,
                   sys_exit, exit_intercept_lock, proc_exited>>

\* The call ends: return response, or the exception in flight reaches the
\* caller.
DirectReturn(r) ==
    /\ ~proc_exited
    /\ UNCHANGED <<tvars, dvars>>
    /\ rpc[r] \in {"respond", "handler"}
    /\ rpc' = [rpc EXCEPT ![r] = "done"]
    /\ UNCHANGED <<req_qasm, trace_lock, trace_in_progress, trace_start_time,
                   acquired, releases, exc, outcome, sys_exit,
                   exit_intercept_lock, original_exit, exit_info, sim_built,
                   run_cycles, proc_exited>>

DirectInit == GateIdle /\ TraceIdle /\ DiffIdle

DirectNext ==
    \E r \in Reqs :
          \/ DirectCall(r)
          \/ Compile(r)
          \/ SimSetup(r)
          \/ InterceptCapture(r)
          \/ InterceptLock(r)
          \/ InterceptInstall(r)
          \/ LoopDone(r)
          \/ LoopTimeout(r)
          \/ LoopCycle(r)
          \/ \E code \in ExitCodes : SimCallsExit(r, code)
          \/ SimRaises(r)
          \/ InterceptRestore(r)
          \/ InterceptUnlock(r)
          \/ DirectReturn(r)

DirectSpec == DirectInit /\ [][DirectNext]_vars

\* ======================================================================
\*  Claims about the Escape Interceptor without the gate (DirectSpec)
\* ======================================================================
\* C32: for every interleaving of the activations of concurrent direct calls,
\* at most one activation is inside its scope at a time, the exit primitive
\* installed there is its own replacement, and once every activation has
\* exited the process-wide exit primitive is the original one.
C32_InterceptionScoped ==
    /\ Cardinality({r \in Reqs : rpc[r] \in ScopePcs}) <= 1
    /\ \A r \in Reqs : rpc[r] = "stepping" => sys_exit = r
    /\ (\A r \in Reqs : rpc[r] \in {"idle", "respond", "handler", "done"})
          => sys_exit = 0

\* ======================================================================
\*  patch_trace_backend.py: _take_full_patch_snapshot on a PIU one of whose
\*  reads may fail (SnapSpec)
\* ======================================================================
\* What a read of the PIU finds: an entry, no entry at the index (the array
\* is shorter), or a read that raises.
Entry(v) == [st |-> "ok", v |-> v]
NoEntry == [st |-> "missing"]
BadEntry == [st |-> "raises"]
\* The attribute is not there at all.
NoAttr == [st |-> "absent"]

\* The reads that may fail, by the field of the patch record they feed.
FlawKinds ==
    {"static_missing", "static_raises", "static_no_pchtype",
     "facebd_missing", "facebd_raises", "facebd_slots",
     "cornerbd_missing", "cornerbd_raises", "cornerbd_slots",
     "merged_reg_absent", "merged_mem_absent"}
NoFlaw == [kind |-> "none", pchidx |-> 0]
Flaws == {NoFlaw} \cup [kind : FlawKinds, pchidx : PchIdx]

\* One slot too few.
ThreeSlots(l) == SubSeq(l, 1, 3)

\* sim.piu as the function reads it: the arrays hold ram, but for the flaw.
PiuOf(ram, flaw) ==
    LET at(i, field) == flaw.pchidx = i /\ flaw.kind = field
    IN [pchinfo_static_ram |->
          [i \in PchIdx |->
             IF at(i, "static_missing") THEN NoEntry
             ELSE IF at(i, "static_raises") THEN BadEntry
             ELSE IF at(i, "static_no_pchtype") THEN Entry([pchdyn |-> "i"])
             ELSE Entry([pchtype |-> ram[i].pchtype])],
        facebd_ram |->
          [i \in PchIdx |->
             IF at(i, "facebd_missing") THEN NoEntry
             ELSE IF at(i, "facebd_raises") THEN BadEntry
             ELSE IF at(i, "facebd_slots") THEN Entry(ThreeSlots(ram[i].facebd))
             ELSE Entry(ram[i].facebd)],
        cornerbd_ram |->
          [i \in PchIdx |->
             IF at(i, "cornerbd_missing") THEN NoEntry
             ELSE IF at(i, "cornerbd_raises") THEN BadEntry
             ELSE IF at(i, "cornerbd_slots") THEN Entry(ThreeSlots(ram[i].cornerbd))
             ELSE Entry(ram[i].cornerbd)],
        merged_reg |->
          IF flaw.kind = "merged_reg_absent" THEN NoAttr
          ELSE Entry([i \in PchIdx |-> ram[i].merged_reg]),
        merged_mem |->
          IF flaw.kind = "merged_mem_absent" THEN NoAttr
          ELSE Entry([i \in PchIdx |-> ram[i].merged_mem])]

\* array[pchidx]: the entry, or the exception of the subscript.
Subscript(e) ==
    CASE e.st = "ok" -> Returns(e.v)
      [] e.st = "missing" -> Raises("IndexError")
      [] OTHER -> Raises("RuntimeError")

\* One iteration of the loop of _take_full_patch_snapshot (lines 281-306):
\* the three subscripts are not guarded, the first that raises ends the
\* call; pchstat.get("pchtype") gives None without the key; hasattr guards
\* the two merged arrays.
ReadPatch(piu, pchidx) ==
    LET pchstat == Subscript(piu.pchinfo_static_ram[pchidx])
        facebd == Subscript(piu.facebd_ram[pchidx])
        cornerbd == Subscript(piu.cornerbd_ram[pchidx])
    IN IF ~pchstat.ok THEN pchstat
       ELSE IF ~facebd.ok THEN facebd
       ELSE IF ~cornerbd.ok THEN cornerbd
       ELSE Returns(
              [pchidx |-> pchidx,
               row |-> pchidx \div num_pchcol,
               col |-> pchidx % num_pchcol,
               pchtype |-> IF "pchtype" \in DOMAIN pchstat.val
                             THEN ToJsonSafe(pchstat.val.pchtype)
                             ELSE ToJsonSafe("None"),
               merged |-> [reg |-> IF piu.merged_reg.st = "ok"
                                     THEN piu.merged_reg.v[pchidx] ELSE 0,
                           mem |-> IF piu.merged_mem.st = "ok"
                                     THEN piu.merged_mem.v[pchidx] ELSE 0],
               facebd |-> FormatFacebd(facebd.val),
               cornerbd |-> FormatCornerbd(cornerbd.val)])

\* _take_full_patch_snapshot(sim): the snapshot, or the exception of the
\* first iteration that raises.
TakeSnapshotOf(piu) ==
    LET failed == {i \in PchIdx : ~ReadPatch(piu, i).ok}
    IN IF failed # {}
         THEN ReadPatch(piu, CHOOSE i \in failed : \A j \in failed : i <= j)
         ELSE Returns([k \in 1..num_pch |-> ReadPatch(piu, k - 1).val])

\* ---------------------------------------------------------------- SnapSpec
\* The contents of the arrays and a flaw are drawn, then the function is
\* applied.
SnapInit ==
    /\ GateIdle /\ TraceIdle
    /\ dpc = "idle" /\ dprev = <<>> /\ dcur = <<>> /\ deltas = <<>>
    /\ NormIdle /\ AliasIdle
    /\ spc = "drawn"
    /\ sram \in PiuRams
    /\ sflaw \in Flaws
    /\ sresult = <<>>

ApplySnapshot ==
    /\ spc = "drawn"
    /\ sresult' = TakeSnapshotOf(PiuOf(sram, sflaw))
    /\ spc' = "taken"
    /\ UNCHANGED <<sram, sflaw, dpc, dprev, dcur, deltas, nvars, avars, gvars, tvars>>

SnapNext == ApplySnapshot
SnapSpec == SnapInit /\ [][SnapNext]_vars

\* ======================================================================
\*  Claims about the snapshot (SnapSpec)
\* ======================================================================
\* The record of a patch all of whose reads succeed.
Observed(pchidx) == PatchRecord(sram, pchidx)
\* The record with the field of the failed read replaced by its placeholder.
Degraded(pchidx) ==
    IF \/ sflaw.kind = "none"
       \/ /\ sflaw.kind \notin {"merged_reg_absent", "merged_mem_absent"}
          /\ sflaw.pchidx # pchidx
      THEN Observed(pchidx)
      ELSE CASE sflaw.kind \in {"static_missing", "static_raises", "static_no_pchtype"} ->
                  [Observed(pchidx) EXCEPT !.pchtype = "None"]
             [] sflaw.kind \in {"facebd_missing", "facebd_raises", "facebd_slots"} ->
                  [Observed(pchidx) EXCEPT
                      !.facebd = [w |-> "", n |-> "", e |-> "", s |-> ""]]
             [] sflaw.kind \in {"cornerbd_missing", "cornerbd_raises", "cornerbd_slots"} ->
                  [Observed(pchidx) EXCEPT
                      !.cornerbd = [nw |-> "", ne |-> "", sw |-> "", se |-> ""]]
             [] sflaw.kind = "merged_reg_absent" ->
                  [Observed(pchidx) EXCEPT !.merged.reg = 0]
             [] OTHER ->
                  [Observed(pchidx) EXCEPT !.merged.mem = 0]

\* C31: whichever read of one field of one patch fails, the call returns a
\* snapshot with one record per patch index, in which the failed field holds
\* its placeholder and every other field what the arrays hold.
C31_PartialObservation ==
    spc = "taken" =>
        /\ sresult.ok
        /\ Len(sresult.val) = num_pch
        /\ \A k \in 1..num_pch : sresult.val[k] = Degraded(k - 1)

\* ======================================================================
\*  Claims about replaying a trace (TraceSpec)
\* ======================================================================
\* The snapshot with the records of a delta put in place of the records of
\* the same patch index.
Overlay(snap, delta) ==
    [k \in 1..Len(snap) |->
        IF \E j \in 1..Len(delta) : delta[j].pchidx = snap[k].pchidx
          THEN delta[CHOOSE j \in 1..Len(delta) : delta[j].pchidx = snap[k].pchidx]
          ELSE snap[k]]

RECURSIVE Replay(_, _, _)
\* The deltas of the first n events overlaid in seq order.
Replay(snap, evs, n) ==
    IF n = 0 THEN snap
             ELSE Overlay(Replay(snap, evs, n - 1), evs[n].patch_delta)

\* C34: at every point of a trace the initial snapshot overlaid with the
\* patch_delta records of all events emitted so far, in seq order and keyed by
\* patch index, is the current baseline snapshot; the events are in seq
\* order, and without an event the baseline equals the initial snapshot.
C34_Replayable ==
    pc # "idle" =>
        /\ \A n \in 1..Len(events) : events[n].seq = n - 1
        /\ Replay(patch_initial, events, Len(events)) = prev_snapshot
        /\ events = <<>> => prev_snapshot = patch_initial

\* Two events on the same patch, the second one putting it back: the order of
\* the overlay decides.
C34_Witness ==
    /\ Len(events) = 2
    /\ events[1].patch_delta[1].pchidx = 0
    /\ events[1].patch_delta[1].pchtype = "zb"
    /\ events[2].patch_delta[1].pchidx = 0
    /\ events[2].patch_delta[1].pchtype = "i"
    /\ prev_snapshot = patch_initial

\* ======================================================================
\*  patch_trace_backend.py: the snapshots of one invocation as objects
\*  (AliasSpec)
\* ======================================================================
\* A reference to a mutable object: an entry of the simulator's PIU arrays,
\* or a record dict the backend allocated, by its address in the heap.
SimRef(pchidx) == [owner |-> "sim", at |-> pchidx]
HeapRef(addr) == [owner |-> "backend", at |-> addr]

\* What is read through a reference now.
Deref(ref, ram, h) ==
    IF ref.owner = "sim" THEN PatchRecord(ram, ref.at) ELSE h[ref.at]
Values(refs, ram, h) == [k \in 1..Len(refs) |-> Deref(refs[k], ram, h)]

\* The records of the snapshot are views of the simulator's own entries.
SnapshotViews(ram, h) ==
    [patches |-> [k \in 1..num_pch |-> SimRef(k - 1)], heap |-> h]

\* _take_full_patch_snapshot, lines 295-306: the record of every patch is a
\* new dict, whose values are text and numbers (_to_json_safe, int) and new
\* dicts (_format_facebd, _format_cornerbd), in a new list.
SnapshotObjects(ram, h) ==
    [patches |-> [k \in 1..num_pch |-> HeapRef(Len(h) + k)],
     heap |-> h \o TakeFullPatchSnapshot(ram)]

RECURSIVE DiffObjectsFrom(_, _, _, _, _)
\* _diff_patch_snapshots: the records are compared by value (line 319) and
\* the record object of cur itself is appended (line 320).
DiffObjectsFrom(prev, cur, ram, h, k) ==
    IF k > Min(Len(prev), Len(cur))
      THEN <<>>
      ELSE (IF Deref(prev[k], ram, h) # Deref(cur[k], ram, h) THEN <<cur[k]>> ELSE <<>>)
           \o DiffObjectsFrom(prev, cur, ram, h, k + 1)
DiffObjects(prev, cur, ram, h) == DiffObjectsFrom(prev, cur, ram, h, 1)

\* What the PIU arrays of a newly configured simulator hold.
InitialRam == [i \in PchIdx |-> CellInit]

AliasInit ==
    /\ GateIdle /\ TraceIdle
    /\ dpc = "idle" /\ dprev = <<>> /\ dcur = <<>> /\ deltas = <<>>
    /\ NormIdle /\ SnapIdle
    /\ apc = "start"
    /\ aram = InitialRam
    /\ heap = <<>>
    /\ snapshots = <<>>
    /\ aprev = 0
    /\ aevents = <<>>
    /\ areport = <<>>

\* Lines 662-663: patch_initial is taken, and prev_snapshot names the same
\* object.
TakeInitial ==
    /\ apc = "start"
    /\ LET s == SnapshotObjects(aram, heap)
       IN /\ heap' = s.heap
          /\ snapshots' = <<s.patches>>
    /\ aprev' = 1
    /\ apc' = "loop"
    /\ UNCHANGED <<aram, aevents, areport>>
    /\ UNCHANGED <<dpc, dprev, dcur, deltas, nvars, svars, gvars, tvars>>

\* The simulator's update phase writes an entry of its PIU arrays in place.
ArraysUpdate ==
    /\ apc = "loop"
    /\ \E i \in PchIdx, c \in SimCells :
          /\ c # aram[i]
          /\ aram' = [aram EXCEPT ![i] = c]
    /\ UNCHANGED <<apc, heap, snapshots, aprev, aevents, areport>>
    /\ UNCHANGED <<dpc, dprev, dcur, deltas, nvars, svars, gvars, tvars>>

\* Lines 707-720, at an accepted significant instruction (at most one per
\* cycle): cur_snapshot is taken and compared, prev_snapshot is rebound to it,
\* a non-empty delta goes into an event.
RecordSnapshot ==
    /\ apc = "loop"
    /\ Len(snapshots) <= MaxCycles
    /\ LET s == SnapshotObjects(aram, heap)
           patch_delta == DiffObjects(snapshots[aprev], s.patches, aram, s.heap)
       IN /\ heap' = s.heap
          /\ snapshots' = Append(snapshots, s.patches)
          /\ aevents' = IF patch_delta # <<>> THEN Append(aevents, patch_delta)
                                              ELSE aevents
    /\ aprev' = Len(snapshots) + 1
    /\ UNCHANGED <<apc, aram, areport>>
    /\ UNCHANGED <<dpc, dprev, dcur, deltas, nvars, svars, gvars, tvars>>

\* Lines 777-780: the report holds patch_initial.patches and events, the
\* objects themselves.
ReportPatch ==
    /\ apc = "loop"
    /\ areport' = <<[initial |-> snapshots[1], events |-> aevents]>>
    /\ apc' = "returned"
    /\ UNCHANGED <<aram, heap, snapshots, aprev, aevents>>
    /\ UNCHANGED <<dpc, dprev, dcur, deltas, nvars, svars, gvars, tvars>>

AliasNext ==
    \/ TakeInitial
    \/ ArraysUpdate
    \/ RecordSnapshot
    \/ ReportPatch
AliasSpec == AliasInit /\ [][AliasNext]_vars

\* ======================================================================
\*  Claims about the identity of snapshot records (AliasSpec)
\* ======================================================================
\* The record objects of the n-th snapshot.
RecordsOf(n) == {snapshots[n][k] : k \in 1..Len(snapshots[n])}

\* C35: the initial snapshot, and the initial snapshot as read through the
\* report, holds the records of the patch state before the first cycle,
\* whatever the simulator has written into its arrays and whatever snapshots
\* and deltas were made since; no record of a snapshot is an object of the
\* simulator, and two snapshots have no record object in common.
C35_InitialImmutable ==
    /\ snapshots # <<>> =>
          Values(snapshots[1], aram, heap) = TakeFullPatchSnapshot(InitialRam)
    /\ areport # <<>> =>
          Values(areport[1].initial, aram, heap) = TakeFullPatchSnapshot(InitialRam)
    /\ \A n \in 1..Len(snapshots) : \A ref \in RecordsOf(n) : ref.owner # "sim"
    /\ \A n, o \in 1..Len(snapshots) : n # o => RecordsOf(n) \cap RecordsOf(o) = {}

\* The report is read after the arrays were written and two more snapshots
\* were taken, one differing from the initial one and one equal to it by
\* value.
C35_Witness ==
    /\ areport # <<>>
    /\ aram # InitialRam
    /\ Len(snapshots) >= 3
    /\ aevents # <<>>
    /\ Values(snapshots[2], aram, heap) # Values(snapshots[1], aram, heap)
    /\ Values(snapshots[3], aram, heap) = Values(snapshots[1], aram, heap)

\* ======================================================================
\*  Claims about the forcing path of lmu (TermSpec)
\* ======================================================================
\* The forced_terminations entries of the unit.
ForcedOf(unit) ==
    SelectSeq(trace_meta.forced_terminations, LAMBDA e : e.unit = unit)

\* C36: in every reachable state in which the oracle returns true, lmu.done
\* is already true; forced_terminations never holds an entry of unit lmu,
\* its system_stable entries are exactly those of qif; and no step of a
\* wrapper changes lmu.done from not set to set.
C36_LmuNeverForced ==
    /\ [](pc # "idle" =>
            /\ CheckSystemStable(sim, trace_meta).ret => sim.units["lmu.done"] = "T"
            /\ ForcedOf("lmu") = <<>>
            /\ ForcedOf("qif") = ForcedBy("system_stable"))
    /\ [][~(InWrapper /\ SetsDone("lmu"))]_vars

\* The wrapper of lmu has run on a simulator that is at rest but for lmu's
\* completion flag: lmu is ready, the oracle was asked by both wrappers and
\* said no, and neither flag was set.
C36_Witness ==
    /\ pc = "record"
    /\ sim.units = [Quiet EXCEPT !["lmu.done"] = "F"]
    /\ SafeGetattr(sim.units, "lmu.state", "None") = <<"ready", TRUE>>
    /\ ~is_stable
    /\ trace_meta.forced_terminations = <<>>

\* ======================================================================
\*  patch_trace_backend.py: the stepping loop with the done-fix wrappers on
\*  a simulator that accepts a significant instruction in every cycle
\*  (ObsSpec: the recorder takes its snapshot, the wrappers ask the oracle)
\* ======================================================================
ObsInit ==
    /\ GateIdle /\ DiffIdle
    /\ pc = "head"
    /\ \E u \in UnitStates :
          sim = [SimWithUnits(u, 0) EXCEPT !.take_input = TRUE,
                                           !.input_opcode = "b_merge"]
    /\ patch_initial = TakeFullPatchSnapshot(sim.ram)
    /\ prev_snapshot = patch_initial
    /\ events = <<>>
    /\ accepted_inst_count = 0
    /\ termination_reason = "normal"
    /\ timeout_seconds \in {"None", "set"}
    /\ trace_meta = [forced_terminations |-> <<>>, warnings |-> <<>>,
                     stability_check_failures |-> <<>>]
    /\ error = "none"
    /\ response = <<>>
    /\ is_stable = FALSE
    /\ exit_called = FALSE
    /\ artifacts = JobFiles
    /\ keep_artifacts \in BOOLEAN
    /\ phase_calls = <<>>

ObsNext == TermNext
ObsSpec == ObsInit /\ [][ObsNext]_vars

\* ======================================================================
\*  Claims about what the driver writes (ObsSpec)
\* ======================================================================
\* The steps of the driver's own code between the phases: the timeout check
\* and the ceiling check (which read the unit states), the recorder (which
\* takes the snapshot) and the building of the report.
ObservingPcs == {"head", "record", "max_check", "build"}

\* The simulator with the completion flag of the unit written true.
WithDone(unit) == [sim EXCEPT !.units[unit \o ".done"] = "T"]

\* C37: the steps in which the driver observes (snapshot, unit states, the
\* checks of the loop) leave the simulator as it is; a step of a wrapper,
\* oracle included, leaves it as it is or writes true into the completion
\* flag of its own unit, and changes of trace_meta nothing but
\* forced_terminations and stability_check_failures, the latter by an append.
C37_ObservationFrame ==
    [][/\ pc \in ObservingPcs => sim' = sim
       /\ pc = "transfer" => sim' \in {sim, WithDone("qif")}
       /\ pc = "lmu_transfer" => sim' \in {sim, WithDone("lmu")}
       /\ InWrapper =>
             /\ trace_meta'.warnings = trace_meta.warnings
             /\ \/ trace_meta'.stability_check_failures
                      = trace_meta.stability_check_failures
                \/ /\ Len(trace_meta'.stability_check_failures)
                         = Len(trace_meta.stability_check_failures) + 1
                   /\ SubSeq(trace_meta'.stability_check_failures, 1,
                             Len(trace_meta.stability_check_failures))
                         = trace_meta.stability_check_failures]_vars

\* A snapshot was taken at an accepted significant instruction, the oracle
\* said true, the wrapper of qif read the unit states for its entry and
\* wrote the flag.
C37_Witness ==
    /\ pc = "build"
    /\ accepted_inst_count > 0
    /\ IsEventInst(OpcodeToInstName(sim.input_opcode))
    /\ ForcedOf("qif") # <<>>
    /\ sim.units["qif.done"] = "T"
    /\ is_stable

====
